---- MODULE Spec2Model ----
(***************************************************************************)
(* A model of libbacktrace's debug-information pipeline: the in-place      *)
(* sort (sort.c), the ELF reader with its debug-file resolver, zlib and XZ *)
(* inflaters (elf.c), the PE/COFF reader (pecoff.c) and the Mach-O dSYM    *)
(* reader (macho.c).  Each part has its own variables and its own          *)
(* specification; a part's specification leaves the other parts idle.      *)
(***************************************************************************)
EXTENDS Integers, Sequences, FiniteSets, TLC

VARIABLES
  \* ---- sort.c: backtrace_qsort ----
  base,       \* the array being sorted: count * size bytes
  base0,      \* the array as it was handed to backtrace_qsort
  count,      \* number of records
  size,       \* bytes per record
  compar,     \* the caller's comparator
  dist,       \* the current gap
  passes,     \* the gaps of the passes made so far, in order
  sortpc      \* "call" | "loop" | "done"

sortVars == <<base, base0, count, size, compar, dist, passes, sortpc>>

VARIABLES
  \* ---- elf.c / pecoff.c / macho.c: the debug-file resolver ----
  fmt,         \* the container format of the primary file: "elf" | "coff" | "macho"
  fs,          \* the file system: path -> <<>> (absent) or <<entry>>
  stack,       \* the active elf_add / coff_add calls, outermost first
  fdtab,       \* every descriptor backtrace_open returned: [fd, path, closes]
  errs,        \* the error_callback calls made so far: [msg, errnum]
  attempts,    \* the separate debug sources tried so far, in order
  result,      \* <<>> while running, then <<the outermost call's return value>>
  found_sym,   \* *found_sym
  found_dwarf, \* *found_dwarf
  registered,  \* the files whose DWARF backtrace_dwarf_add registered, in order
  macho        \* macho_try_dsym's position: [pc, dirname, dir, i, uuid]

resVars ==
  <<fmt, fs, stack, fdtab, errs, attempts, result, found_sym, found_dwarf,
    registered, macho>>

VARIABLES
  \* ---- elf.c: the XZ decoder and its caller ----
  xzs,        \* struct xz_dec dec
  xzb,        \* struct xz_buf buf
  xzres,      \* <<>> before the first xz_dec_run, then <<its last return value>>
  xzlast,     \* the last step on the decoder: a reset or an xz_dec_run call
  xzprev,     \* the step before that one
  xzhdr,      \* <<>> until xz_dec_stream_header ran, then <<what it returned>>
  xzfeeds     \* how many times the caller supplied more input

xzVars == <<xzs, xzb, xzres, xzlast, xzprev, xzhdr, xzfeeds>>

VARIABLES
  \* ---- elf.c: the zlib inflater and elf_add's two uncompress loops ----
  zsec,       \* the compressed section at hand: its bytes and where they lie
  zout,       \* what the uncompress call on it left, <<>> before the call
  zpass,      \* the loop elf_add is in: "zdebug" (zlib-gnu) | "chdr" (zlib-gabi)
  zn,         \* how many compressed sections elf_add has taken up
  zerrs       \* the error_callback calls elf.c made in the call on the section

zlibVars == <<zsec, zout, zpass, zn, zerrs>>

VARIABLES
  \* ---- elf.c / pecoff.c: the symbol shards of a threaded state ----
  symfmt,     \* the reader the state belongs to: "elf" | "coff"
  symhead,    \* state->syminfo_data: 0 (NULL) or a shard
  symheap,    \* the struct elf_syminfo_data / coff_syminfo_data objects
  thr,        \* each thread's position in elf_add / elf_syminfo and its locals
  symbroken   \* whether a thread has read a shard that was not initialised

symVars == <<symfmt, symhead, symheap, thr, symbroken>>

VARIABLES
  \* ---- elf.c / pecoff.c / macho.c: backtrace_initialize and the queries ----
  regfmt,      \* the reader of the state: "elf" | "coff" | "macho"
  regmods,     \* what the reader finds in each module of the process, main first
  regpc,       \* "start" | "ready" | "failed" (backtrace_initialize returned 0)
  regfileline, \* state->fileline_fn
  regsyminfo,  \* state->syminfo_fn
  reghead,     \* state->syminfo_data: 0 (NULL) or a shard
  regheap,     \* the shards allocated so far, in order of allocation
  regerrs,     \* the error_callback calls made so far: [msg, errnum]
  regcalls,    \* the callback calls the last query made
  regqueries   \* the queries made so far, in order

regVars ==
  <<regfmt, regmods, regpc, regfileline, regsyminfo, reghead, regheap,
    regerrs, regcalls, regqueries>>

VARIABLES
  \* ---- elf.c / pecoff.c: elf_crc32 and coff_crc32 on a byte string ----
  crcbuf,     \* buf, len bytes
  crcout      \* what each function returned for it, <<>> before its call

crcVars == <<crcbuf, crcout>>

VARIABLES
  \* ---- elf.c: the XZ decoder on the streams of a reference encoder ----
  rxref,      \* the payload and the .xz stream the encoder made of it
  rxs,        \* struct xz_dec dec
  rxb,        \* struct xz_buf buf: the whole stream, and the output buffer
  rxout,      \* the contents of the output buffers that were filled, in order
  rxres       \* <<>> before the first xz_dec_run, then <<its last return value>>

refVars == <<rxref, rxs, rxb, rxout, rxres>>

VARIABLES
  \* ---- elf.c: the symlink loop of elf_find_debugfile_by_debuglink ----
  lnfs,       \* the file system: what lstat and readlink find at each path
  lnname,     \* filename
  lnpc        \* "lstat" | "readlink" | "probes" | "done" (goto done)

lnVars == <<lnfs, lnname, lnpc>>

\* The debug-section views of one call of macho_try_dwarf, elf_add or
\* coff_add, from the computed offsets of the debug sections to the return.
VARIABLES
  vwin,        \* the file: function, section kinds, outcomes of the calls
  vwpc,        \* position in the function
  vwi,         \* loop index i
  vwsec,       \* sections[i]: size != 0, compressed, data
  vwz,         \* zsections[i]: size != 0, data
  vwvalid,     \* the views whose ..._valid flag is set
  vwreleased,  \* the views released so far
  vwusing,     \* using_debug_view
  vwreg,       \* the data / size pairs a successful backtrace_dwarf_add took
  vwret        \* the return value, once returned

vwVars == <<vwin, vwpc, vwi, vwsec, vwz, vwvalid, vwreleased, vwusing, vwreg, vwret>>

\* backtrace_initialize of elf.c on the executable and the objects
\* dl_iterate_phdr reports.
VARIABLES
  phprim,      \* the executable: e_type, magic, whether the rest parses
  phlist,      \* the objects dl_iterate_phdr reports, in order
  phpc,        \* position in backtrace_initialize
  phi,         \* the next object of phlist
  phpd,        \* struct phdr_data: exe_descriptor
  phfds,       \* every descriptor: path, backtrace_close calls, elf_add calls
  phshards,    \* the files elf_add registered symbols or DWARF for
  phret,       \* what elf_add returned for the executable
  phevents     \* what phdr_callback did with pd->exe_descriptor

phVars == <<phprim, phlist, phpc, phi, phpd, phfds, phshards, phret, phevents>>

\* The LZMA2 control layer run on its own: the control bytes of the chunks
\* handed in and what is uninitialised before the reset (l2in), the struct
\* xz_dec_lzma2 (l2L), the buffer (l2b) and what the last call returned.
VARIABLES
  l2in,
  l2L,
  l2b,
  l2res

l2Vars == <<l2in, l2L, l2b, l2res>>

\* Lookups in symbol shards of any contents: the format (lkfmt), the shards
\* in the order of the list (lkshards) and the last lookup (lkq).
VARIABLES
  lkfmt,
  lkshards,
  lkq

lkVars == <<lkfmt, lkshards, lkq>>

\* How elf_add maps the debug sections: the sections of the file (dvsec),
\* the offsets and the size the loop over them comes to (dvspan) and the
\* views obtained (dvmap).
VARIABLES
  dvsec,
  dvspan,
  dvmap

dvVars == <<dvsec, dvspan, dvmap>>

\* One call of macho_try_dwarf seen from the process's descriptors: the
\* descriptors open in the process (mdfds), the dSYM file tried (mdfile), the
\* locals of the call (mdL) and what was done with which descriptor (mdlog).
VARIABLES
  mdfds,
  mdfile,
  mdL,
  mdlog

mdVars == <<mdfds, mdfile, mdL, mdlog>>

\* elf_add's use of the section header table: the header fields of the file
\* (shin), the locals of the call (shL), the section headers it has taken
\* the address of (shderef) and how the call ended (shres).
VARIABLES
  shin,
  shL,
  shderef,
  shres

shVars == <<shin, shL, shderef, shres>>

\* state->syminfo_fn under several calls of backtrace_initialize on one
\* state: the state (sfstate) and the calls, each with the found_sym it came
\* to (sfcalls).
VARIABLES
  sfstate,
  sfcalls

sfVars == <<sfstate, sfcalls>>

\* backtrace_qsort statement by statement: the arguments (qlin), the array
\* (qlbase), the locals (qlL), the gaps of the passes begun (qlpasses) and
\* the lowest offset from base handed to the comparison function (qllow).
VARIABLES
  qlin,
  qlbase,
  qlL,
  qlpasses,
  qllow

qlVars == <<qlin, qlbase, qlL, qlpasses, qllow>>

\* coff_add's loop over the section headers: the section headers of the
\* file (csin), the locals of coff_add (csL) and what the loop has recorded
\* from which section (cslog).
VARIABLES
  csin,
  csL,
  cslog

csVars == <<csin, csL, cslog>>

\* All the variables, and for each part the variables of the other parts.
vars == <<sortVars, resVars, xzVars, zlibVars, symVars, regVars, crcVars, refVars, lnVars, vwVars, phVars, l2Vars, lkVars, dvVars, mdVars, shVars, sfVars, qlVars, csVars>>

otherThanCoffClassify == <<sortVars, resVars, xzVars, zlibVars, symVars, regVars, crcVars, refVars, lnVars, vwVars, phVars, l2Vars, lkVars, dvVars, mdVars, shVars, sfVars, qlVars>>

otherThanSortLoops == <<sortVars, resVars, xzVars, zlibVars, symVars, regVars, crcVars, refVars, lnVars, vwVars, phVars, l2Vars, lkVars, dvVars, mdVars, shVars, sfVars, csVars>>

otherThanSyminfoFn == <<sortVars, resVars, xzVars, zlibVars, symVars, regVars, crcVars, refVars, lnVars, vwVars, phVars, l2Vars, lkVars, dvVars, mdVars, shVars, qlVars, csVars>>

otherThanSectionHeaders == <<sortVars, resVars, xzVars, zlibVars, symVars, regVars, crcVars, refVars, lnVars, vwVars, phVars, l2Vars, lkVars, dvVars, mdVars, sfVars, qlVars, csVars>>

otherThanMachoDescriptor == <<sortVars, resVars, xzVars, zlibVars, symVars, regVars, crcVars, refVars, lnVars, vwVars, phVars, l2Vars, lkVars, dvVars, shVars, sfVars, qlVars, csVars>>

otherThanDebugView == <<sortVars, resVars, xzVars, zlibVars, symVars, regVars, crcVars, refVars, lnVars, vwVars, phVars, l2Vars, lkVars, mdVars, shVars, sfVars, qlVars, csVars>>

otherThanLookup == <<sortVars, resVars, xzVars, zlibVars, symVars, regVars, crcVars, refVars, lnVars, vwVars, phVars, l2Vars, dvVars, mdVars, shVars, sfVars, qlVars, csVars>>

otherThanLzma2 == <<sortVars, resVars, xzVars, zlibVars, symVars, regVars, crcVars, refVars, lnVars, vwVars, phVars, lkVars, dvVars, mdVars, shVars, sfVars, qlVars, csVars>>

otherThanPh == <<sortVars, resVars, xzVars, zlibVars, symVars, regVars, crcVars, refVars, lnVars, vwVars, l2Vars, lkVars, dvVars, mdVars, shVars, sfVars, qlVars, csVars>>

otherThanVw == <<sortVars, resVars, xzVars, zlibVars, symVars, regVars, crcVars, refVars, lnVars, phVars, l2Vars, lkVars, dvVars, mdVars, shVars, sfVars, qlVars, csVars>>

otherThanLn == <<sortVars, resVars, xzVars, zlibVars, symVars, regVars, crcVars, refVars, vwVars, phVars, l2Vars, lkVars, dvVars, mdVars, shVars, sfVars, qlVars, csVars>>

otherThanXzRef == <<sortVars, resVars, xzVars, zlibVars, symVars, regVars, crcVars, lnVars, vwVars, phVars, l2Vars, lkVars, dvVars, mdVars, shVars, sfVars, qlVars, csVars>>

otherThanCrc == <<sortVars, resVars, xzVars, zlibVars, symVars, regVars, refVars, lnVars, vwVars, phVars, l2Vars, lkVars, dvVars, mdVars, shVars, sfVars, qlVars, csVars>>

otherThanReg == <<sortVars, resVars, xzVars, zlibVars, symVars, crcVars, refVars, lnVars, vwVars, phVars, l2Vars, lkVars, dvVars, mdVars, shVars, sfVars, qlVars, csVars>>

otherThanSort == <<resVars, xzVars, zlibVars, symVars, regVars, crcVars, refVars, lnVars, vwVars, phVars, l2Vars, lkVars, dvVars, mdVars, shVars, sfVars, qlVars, csVars>>

otherThanRes == <<sortVars, xzVars, zlibVars, symVars, regVars, crcVars, refVars, lnVars, vwVars, phVars, l2Vars, lkVars, dvVars, mdVars, shVars, sfVars, qlVars, csVars>>

otherThanZlib == <<sortVars, resVars, xzVars, symVars, regVars, crcVars, refVars, lnVars, vwVars, phVars, l2Vars, lkVars, dvVars, mdVars, shVars, sfVars, qlVars, csVars>>

otherThanXz == <<sortVars, resVars, zlibVars, symVars, regVars, crcVars, refVars, lnVars, vwVars, phVars, l2Vars, lkVars, dvVars, mdVars, shVars, sfVars, qlVars, csVars>>

otherThanSym == <<sortVars, resVars, xzVars, zlibVars, regVars, crcVars, refVars, lnVars, vwVars, phVars, l2Vars, lkVars, dvVars, mdVars, shVars, sfVars, qlVars, csVars>>

(***************************************************************************)
(* Bounds of the model.                                                    *)
(***************************************************************************)
MaxCount == 8
MaxNesting == 4
MaxKey == 1
MaxDsymFiles == 2
MaxFeeds == 2
MaxSections == 2
MaxThreads == 2
MaxShards == 2
MaxModules == 2
MaxQueries == 2
MaxCrcLen == 3

(***************************************************************************)
(* Integer helpers: C's unsigned arithmetic on w-bit words.                *)
(***************************************************************************)
RECURSIVE BitOr(_, _)
BitOr(x, y) ==
  IF x = 0 THEN y
  ELSE IF y = 0 THEN x
  ELSE (IF x % 2 = 1 \/ y % 2 = 1 THEN 1 ELSE 0) + 2 * BitOr(x \div 2, y \div 2)

RECURSIVE BitXor(_, _)
BitXor(x, y) ==
  IF x = 0 THEN y
  ELSE IF y = 0 THEN x
  ELSE ((x + y) % 2) + 2 * BitXor(x \div 2, y \div 2)

RECURSIVE BitAnd(_, _)
BitAnd(x, y) ==
  IF x = 0 \/ y = 0 THEN 0
  ELSE (IF x % 2 = 1 /\ y % 2 = 1 THEN 1 ELSE 0) + 2 * BitAnd(x \div 2, y \div 2)

(***************************************************************************)
(* sort.c                                                                  *)
(***************************************************************************)

\* The comparators callers pass: three-way comparisons of the record's first
\* byte, ascending or descending (elf_symbol_compare is of the first kind).
Comparators == {"asc", "desc"}

\* (*compar) (cur, cur + d): p and q are byte offsets into b.
CallCompar(c, b, p, q) ==
  LET x == b[p + 1]
      y == b[q + 1]
  IN IF c = "asc"
       THEN (IF x < y THEN -1 ELSE IF x > y THEN 1 ELSE 0)
       ELSE (IF x > y THEN -1 ELSE IF x < y THEN 1 ELSE 0)

\* swap (a, b, size): exchanges size bytes, one at a time.
RECURSIVE swap(_, _, _, _, _)
swap(b, p, q, sz, i) ==
  IF i >= sz THEN b
  ELSE swap([b EXCEPT ![p + i + 1] = b[q + i + 1], ![q + i + 1] = b[p + i + 1]],
            p, q, sz, i + 1)

\* A mutant of InnerLoop: the insertion stops after its first exchange.
RECURSIVE InnerLoopOneSwap(_, _, _, _, _)
InnerLoopOneSwap(b, cur, d, sz, c) ==
  IF cur < 0 THEN b
  ELSE IF CallCompar(c, b, cur, cur + d) <= 0 THEN b
  ELSE swap(b, cur, cur + d, sz, 0)

\* for (cur = base + i*size - d; cur >= base; cur -= d): cur is the byte
\* offset from base.
RECURSIVE InnerLoop(_, _, _, _, _)
InnerLoop(b, cur, d, sz, c) ==
  IF cur < 0 THEN b
  ELSE IF CallCompar(c, b, cur, cur + d) <= 0 THEN b
  ELSE InnerLoop(swap(b, cur, cur + d, sz, 0), cur - d, d, sz, c)

\* for (i = dist; i < count; i++) ...
RECURSIVE OuterLoop(_, _, _, _, _, _)
OuterLoop(b, i, dst, cnt, sz, c) ==
  IF i >= cnt THEN b
  ELSE OuterLoop(InnerLoop(b, i * sz - dst * sz, dst * sz, sz, c),
                 i + 1, dst, cnt, sz, c)

\* NextDist without the | 1.
NextDistEven(d) == (d \div 8) * 3

\* dist = (dist / 8 * 3) | 1
NextDist(d) == BitOr((d \div 8) * 3, 1)

\* The arrays handed to backtrace_qsort: record i is its key byte followed,
\* when size > 1, by bytes that identify the record.
RECURSIVE Flatten(_, _, _)
Flatten(keys, sz, i) ==
  IF i > Len(keys) THEN <<>>
  ELSE <<keys[i]>> \o [j \in 1..(sz - 1) |-> i] \o Flatten(keys, sz, i + 1)

ElemSizes == {1, 2}

SortInit ==
  /\ count \in 0..MaxCount
  /\ size \in ElemSizes
  /\ compar \in Comparators
  /\ \E keys \in [1..count -> 0..MaxKey] : base = Flatten(keys, size, 1)
  /\ base0 = base
  /\ dist = 0
  /\ passes = <<>>
  /\ sortpc = "call"

SortIdle ==
  /\ count = 0
  /\ size = 1
  /\ compar = "asc"
  /\ base = <<>>
  /\ base0 = <<>>
  /\ dist = 0
  /\ passes = <<>>
  /\ sortpc = "idle"

\* backtrace_qsort up to the loop: if (count < 2) return; dist = count;
QsortEnter ==
  /\ sortpc = "call"
  /\ IF count < 2
       THEN sortpc' = "done" /\ dist' = dist
       ELSE sortpc' = "loop" /\ dist' = count
  /\ UNCHANGED <<base, base0, count, size, compar, passes>>
  /\ UNCHANGED otherThanSort

\* One iteration of the do ... while (dist != 1) loop.
QsortPass ==
  /\ sortpc = "loop"
  /\ dist' = NextDist(dist)
  /\ base' = OuterLoop(base, dist', dist', count, size, compar)
  /\ passes' = Append(passes, dist')
  /\ sortpc' = IF dist' # 1 THEN "loop" ELSE "done"
  /\ UNCHANGED <<base0, count, size, compar>>
  /\ UNCHANGED otherThanSort

SortNext == QsortEnter \/ QsortPass

\* Record i of array b, as its sequence of bytes.
Elem(b, sz, i) == SubSeq(b, (i - 1) * sz + 1, i * sz)

ElemBag(b, cnt, sz) ==
  [e \in {Elem(b, sz, i) : i \in 1..cnt} |->
     Cardinality({i \in 1..cnt : Elem(b, sz, i) = e})]

(***************************************************************************)
(* CRC-32 (elf.c: elf_crc32, pecoff.c: coff_crc32).  A uint32_t is the     *)
(* pair <<high 16 bits, low 16 bits>>.                                     *)
(***************************************************************************)

\* static const uint32_t crc32_table[256] of elf_crc32.
elf_crc32_table ==
  <<
     <<0, 0>>, <<30471, 12438>>, <<60942, 24876>>, <<39177, 20922>>,
     <<1901, 50201>>, <<28778, 62607>>, <<59747, 42293>>, <<40548, 38307>>,
     <<3803, 34866>>, <<31196, 47268>>, <<57557, 59678>>, <<38866, 55688>>,
     <<2486, 19499>>, <<32433, 31933>>, <<59320, 11527>>, <<37055, 7569>>,
     <<7607, 4196>>, <<27312, 8434>>, <<62393, 29000>>, <<33982, 16862>>,
     <<6874, 54397>>, <<28125, 58603>>, <<62676, 46417>>, <<33747, 34247>>,
     <<4972, 38998>>, <<25707, 43200>>, <<64866, 63866>>, <<35429, 51692>>,
     <<5121, 23631>>, <<25350, 27865>>, <<64015, 15715>>, <<36104, 3573>>,
     <<15214, 8392>>, <<19561, 4190>>, <<54624, 16868>>, <<41575, 29042>>,
     <<15363, 58577>>, <<19204, 54343>>, <<53773, 34301>>, <<42250, 46443>>,
     <<13749, 43258>>, <<17074, 39020>>, <<56251, 51670>>, <<44220, 63808>>,
     <<13016, 27875>>, <<17887, 23669>>, <<56534, 3535>>, <<43985, 15705>>,
     <<9945, 12460>>, <<20958, 58>>, <<51415, 20864>>, <<49104, 24854>>,
     <<8628, 62645>>, <<22195, 50211>>, <<53178, 38297>>, <<47293, 42255>>,
     <<10242, 47262>>, <<24325, 34824>>, <<50700, 55730>>, <<45323, 59684>>,
     <<12143, 31879>>, <<22632, 19473>>, <<49505, 7595>>, <<46694, 11581>>,
     <<30428, 16784>>, <<475, 28934>>, <<39122, 8380>>, <<61397, 4138>>,
     <<29105, 34185>>, <<1718, 46367>>, <<40895, 58533>>, <<59576, 54323>>,
     <<30727, 51618>>, <<3840, 63796>>, <<38409, 43150>>, <<57614, 38936>>,
     <<32618, 3515>>, <<2157, 15661>>, <<37220, 27799>>, <<58979, 23553>>,
     <<27499, 20980>>, <<7276, 24930>>, <<34149, 12504>>, <<62050, 78>>,
     <<27654, 38381>>, <<6913, 42363>>, <<33288, 62657>>, <<62735, 50263>>,
     <<26032, 55750>>, <<4791, 59728>>, <<35774, 47338>>, <<64697, 34940>>,
     <<25309, 7647>>, <<5594, 11593>>, <<36051, 31987>>, <<64468, 19557>>,
     <<19890, 24920>>, <<15029, 20942>>, <<41916, 116>>, <<54459, 12514>>,
     <<19167, 42305>>, <<15832, 38359>>, <<42193, 50285>>, <<54230, 62715>>,
     <<17257, 59754>>, <<13422, 55804>>, <<44391, 34886>>, <<55904, 47312>>,
     <<17412, 11635>>, <<13059, 7653>>, <<43530, 19551>>, <<56589, 31945>>,
     <<20485, 28988>>, <<9986, 16810>>, <<48651, 4112>>, <<51468, 8326>>,
     <<22376, 46373>>, <<8303, 34227>>, <<47462, 54281>>, <<52833, 58527>>,
     <<24286, 63758>>, <<10713, 51608>>, <<45264, 38946>>, <<51159, 43188>>,
     <<22963, 15639>>, <<11956, 3457>>, <<47037, 23611>>, <<49338, 27821>>,
     <<60856, 33568>>, <<39615, 46006>>, <<950, 57868>>, <<29873, 53914>>,
     <<60117, 18233>>, <<40402, 30639>>, <<1243, 9749>>, <<29660, 5763>>,
     <<58211, 2834>>, <<37988, 15236>>, <<3437, 27198>>, <<31338, 23208>>,
     <<58382, 53003>>, <<37641, 65437>>, <<2560, 44583>>, <<32007, 40625>>,
     <<61455, 37700>>, <<34568, 41938>>, <<7681, 62056>>, <<26886, 49918>>,
     <<63330, 22365>>, <<32869, 26571>>, <<6508, 13937>>, <<28267, 1767>>,
     <<65236, 7030>>, <<35283, 11232>>, <<4314, 31322>>, <<26589, 19148>>,
     <<63929, 57199>>, <<36542, 61433>>, <<6071, 48707>>, <<24752, 36565>>,
     <<54998, 41960>>, <<41425, 37758>>, <<14552, 49860>>, <<20447, 62034>>,
     <<53691, 26609>>, <<42684, 22375>>, <<16309, 1757>>, <<18610, 13899>>,
     <<55309, 11226>>, <<44810, 6988>>, <<13827, 19190>>, <<16644, 31328>>,
     <<57184, 61379>>, <<43111, 57173>>, <<12654, 36591>>, <<18025, 48761>>,
     <<52065, 45964>>, <<48230, 33562>>, <<9583, 53920>>, <<21096, 57910>>,
     <<52236, 30613>>, <<47883, 18179>>, <<8706, 5817>>, <<21765, 9775>>,
     <<50618, 15294>>, <<45757, 2856>>, <<11188, 23186>>, <<23731, 27140>>,
     <<49879, 65447>>, <<46544, 53041>>, <<11481, 40587>>, <<23518, 44573>>,
     <<39780, 49840>>, <<60515, 61990>>, <<30058, 41884>>, <<621, 37642>>,
     <<39945, 1705>>, <<60174, 13887>>, <<29191, 26501>>, <<1280, 22291>>,
     <<38335, 19074>>, <<58040, 31252>>, <<31665, 11182>>, <<3254, 6968>>,
     <<37586, 36507>>, <<58837, 48653>>, <<31964, 61367>>, <<3035, 57121>>,
     <<34515, 53972>>, <<61908, 57922>>, <<26845, 46072>>, <<8154, 33646>>,
     <<33214, 5837>>, <<63161, 9819>>, <<28592, 30689>>, <<6327, 18295>>,
     <<34824, 23270>>, <<65295, 27248>>, <<26118, 15306>>, <<4353, 2908>>,
     <<36709, 40703>>, <<63586, 44649>>, <<24939, 65491>>, <<5740, 53061>>,
     <<40970, 57976>>, <<55053, 53998>>, <<19972, 33620>>, <<14595, 46018>>,
     <<42855, 9825>>, <<53344, 5879>>, <<18793, 18253>>, <<15982, 30683>>,
     <<44753, 27210>>, <<55766, 23260>>, <<16607, 2918>>, <<14296, 15344>>,
     <<43452, 44627>>, <<57019, 40645>>, <<18354, 53119>>, <<12469, 65513>>,
     <<48573, 61980>>, <<51898, 49802>>, <<21427, 37680>>, <<9396, 41894>>,
     <<47824, 13829>>, <<52695, 1683>>, <<21726, 22313>>, <<9177, 26559>>,
     <<45926, 31278>>, <<50273, 19128>>, <<23912, 6914>>, <<10863, 11156>>,
     <<46091, 48695>>, <<49932, 36513>>, <<23045, 57115>>, <<11522, 61325>>
  >>

\* static const uint32_t crc32_table[256] of coff_crc32.
coff_crc32_table ==
  <<
     <<0, 0>>, <<30471, 12438>>, <<60942, 24876>>, <<39177, 20922>>,
     <<1901, 50201>>, <<28778, 62607>>, <<59747, 42293>>, <<40548, 38307>>,
     <<3803, 34866>>, <<31196, 47268>>, <<57557, 59678>>, <<38866, 55688>>,
     <<2486, 19499>>, <<32433, 31933>>, <<59320, 11527>>, <<37055, 7569>>,
     <<7607, 4196>>, <<27312, 8434>>, <<62393, 29000>>, <<33982, 16862>>,
     <<6874, 54397>>, <<28125, 58603>>, <<62676, 46417>>, <<33747, 34247>>,
     <<4972, 38998>>, <<25707, 43200>>, <<64866, 63866>>, <<35429, 51692>>,
     <<5121, 23631>>, <<25350, 27865>>, <<64015, 15715>>, <<36104, 3573>>,
     <<15214, 8392>>, <<19561, 4190>>, <<54624, 16868>>, <<41575, 29042>>,
     <<15363, 58577>>, <<19204, 54343>>, <<53773, 34301>>, <<42250, 46443>>,
     <<13749, 43258>>, <<17074, 39020>>, <<56251, 51670>>, <<44220, 63808>>,
     <<13016, 27875>>, <<17887, 23669>>, <<56534, 3535>>, <<43985, 15705>>,
     <<9945, 12460>>, <<20958, 58>>, <<51415, 20864>>, <<49104, 24854>>,
     <<8628, 62645>>, <<22195, 50211>>, <<53178, 38297>>, <<47293, 42255>>,
     <<10242, 47262>>, <<24325, 34824>>, <<50700, 55730>>, <<45323, 59684>>,
     <<12143, 31879>>, <<22632, 19473>>, <<49505, 7595>>, <<46694, 11581>>,
     <<30428, 16784>>, <<475, 28934>>, <<39122, 8380>>, <<61397, 4138>>,
     <<29105, 34185>>, <<1718, 46367>>, <<40895, 58533>>, <<59576, 54323>>,
     <<30727, 51618>>, <<3840, 63796>>, <<38409, 43150>>, <<57614, 38936>>,
     <<32618, 3515>>, <<2157, 15661>>, <<37220, 27799>>, <<58979, 23553>>,
     <<27499, 20980>>, <<7276, 24930>>, <<34149, 12504>>, <<62050, 78>>,
     <<27654, 38381>>, <<6913, 42363>>, <<33288, 62657>>, <<62735, 50263>>,
     <<26032, 55750>>, <<4791, 59728>>, <<35774, 47338>>, <<64697, 34940>>,
     <<25309, 7647>>, <<5594, 11593>>, <<36051, 31987>>, <<64468, 19557>>,
     <<19890, 24920>>, <<15029, 20942>>, <<41916, 116>>, <<54459, 12514>>,
     <<19167, 42305>>, <<15832, 38359>>, <<42193, 50285>>, <<54230, 62715>>,
     <<17257, 59754>>, <<13422, 55804>>, <<44391, 34886>>, <<55904, 47312>>,
     <<17412, 11635>>, <<13059, 7653>>, <<43530, 19551>>, <<56589, 31945>>,
     <<20485, 28988>>, <<9986, 16810>>, <<48651, 4112>>, <<51468, 8326>>,
     <<22376, 46373>>, <<8303, 34227>>, <<47462, 54281>>, <<52833, 58527>>,
     <<24286, 63758>>, <<10713, 51608>>, <<45264, 38946>>, <<51159, 43188>>,
     <<22963, 15639>>, <<11956, 3457>>, <<47037, 23611>>, <<49338, 27821>>,
     <<60856, 33568>>, <<39615, 46006>>, <<950, 57868>>, <<29873, 53914>>,
     <<60117, 18233>>, <<40402, 30639>>, <<1243, 9749>>, <<29660, 5763>>,
     <<58211, 2834>>, <<37988, 15236>>, <<3437, 27198>>, <<31338, 23208>>,
     <<58382, 53003>>, <<37641, 65437>>, <<2560, 44583>>, <<32007, 40625>>,
     <<61455, 37700>>, <<34568, 41938>>, <<7681, 62056>>, <<26886, 49918>>,
     <<63330, 22365>>, <<32869, 26571>>, <<6508, 13937>>, <<28267, 1767>>,
     <<65236, 7030>>, <<35283, 11232>>, <<4314, 31322>>, <<26589, 19148>>,
     <<63929, 57199>>, <<36542, 61433>>, <<6071, 48707>>, <<24752, 36565>>,
     <<54998, 41960>>, <<41425, 37758>>, <<14552, 49860>>, <<20447, 62034>>,
     <<53691, 26609>>, <<42684, 22375>>, <<16309, 1757>>, <<18610, 13899>>,
     <<55309, 11226>>, <<44810, 6988>>, <<13827, 19190>>, <<16644, 31328>>,
     <<57184, 61379>>, <<43111, 57173>>, <<12654, 36591>>, <<18025, 48761>>,
     <<52065, 45964>>, <<48230, 33562>>, <<9583, 53920>>, <<21096, 57910>>,
     <<52236, 30613>>, <<47883, 18179>>, <<8706, 5817>>, <<21765, 9775>>,
     <<50618, 15294>>, <<45757, 2856>>, <<11188, 23186>>, <<23731, 27140>>,
     <<49879, 65447>>, <<46544, 53041>>, <<11481, 40587>>, <<23518, 44573>>,
     <<39780, 49840>>, <<60515, 61990>>, <<30058, 41884>>, <<621, 37642>>,
     <<39945, 1705>>, <<60174, 13887>>, <<29191, 26501>>, <<1280, 22291>>,
     <<38335, 19074>>, <<58040, 31252>>, <<31665, 11182>>, <<3254, 6968>>,
     <<37586, 36507>>, <<58837, 48653>>, <<31964, 61367>>, <<3035, 57121>>,
     <<34515, 53972>>, <<61908, 57922>>, <<26845, 46072>>, <<8154, 33646>>,
     <<33214, 5837>>, <<63161, 9819>>, <<28592, 30689>>, <<6327, 18295>>,
     <<34824, 23270>>, <<65295, 27248>>, <<26118, 15306>>, <<4353, 2908>>,
     <<36709, 40703>>, <<63586, 44649>>, <<24939, 65491>>, <<5740, 53061>>,
     <<40970, 57976>>, <<55053, 53998>>, <<19972, 33620>>, <<14595, 46018>>,
     <<42855, 9825>>, <<53344, 5879>>, <<18793, 18253>>, <<15982, 30683>>,
     <<44753, 27210>>, <<55766, 23260>>, <<16607, 2918>>, <<14296, 15344>>,
     <<43452, 44627>>, <<57019, 40645>>, <<18354, 53119>>, <<12469, 65513>>,
     <<48573, 61980>>, <<51898, 49802>>, <<21427, 37680>>, <<9396, 41894>>,
     <<47824, 13829>>, <<52695, 1683>>, <<21726, 22313>>, <<9177, 26559>>,
     <<45926, 31278>>, <<50273, 19128>>, <<23912, 6914>>, <<10863, 11156>>,
     <<46091, 48695>>, <<49932, 36513>>, <<23045, 57115>>, <<11522, 61325>>
  >>

\* The values of a uint32_t.
UInt32 == (0..65535) \X (0..65535)

\* ~x
Not32(x) == <<65535 - x[1], 65535 - x[2]>>

\* x ^ y
Xor32(x, y) == <<BitXor(x[1], y[1]), BitXor(x[2], y[2])>>

\* x >> 8
Shr8(x) == <<x[1] \div 256, (x[1] % 256) * 256 + x[2] \div 256>>

\* The uint32_t read from four bytes, least significant first.
get_le32(b, i) == <<b[i + 3] * 256 + b[i + 2], b[i + 1] * 256 + b[i]>>

\* The four bytes of a uint32_t, least significant first.
Bytes32(x) == <<x[2] % 256, x[2] \div 256, x[1] % 256, x[1] \div 256>>

\* for (end = buf + len; buf < end; ++ buf)
\*   crc = crc32_table[(crc ^ *buf) & 0xff] ^ (crc >> 8);
\* The loop over buf[lo..hi], as the loop over the first half followed by the
\* loop over the second.
RECURSIVE Crc32Range(_, _, _, _, _)
Crc32Range(table, crc, buf, lo, hi) ==
  IF lo > hi THEN crc
  ELSE IF lo = hi
    THEN Xor32(table[BitXor(crc[2] % 256, buf[lo]) + 1], Shr8(crc))
  ELSE LET mid == (lo + hi) \div 2
           half == Crc32Range(table, crc, buf, lo, mid)
       IN CASE half \in UInt32 -> Crc32Range(table, half, buf, mid + 1, hi)

crc32_loop(table, crc, buf, i) == Crc32Range(table, crc, buf, i, Len(buf))

\* A mutant of elf_crc32: the result is not complemented.
elf_crc32_uncomplemented(crc, buf) ==
  crc32_loop(elf_crc32_table, Not32(crc), buf, 1)

elf_crc32(crc, buf) == Not32(crc32_loop(elf_crc32_table, Not32(crc), buf, 1))

coff_crc32(crc, buf) == Not32(crc32_loop(coff_crc32_table, Not32(crc), buf, 1))

Zero32 == <<0, 0>>

(***************************************************************************)
(* The debug-file resolver: files, paths, descriptors, the error callback. *)
(***************************************************************************)
\* A C string is the sequence of its characters.
USR_LIB_DEBUG ==
  <<"/", "u", "s", "r", "/", "l", "i", "b", "/", "d", "e", "b", "u", "g", "/">>

DOT_DEBUG == <<".", "d", "e", "b", "u", "g", "/">>

DOT_DEBUG_SUFFIX == <<".", "d", "e", "b", "u", "g">>

SYSTEM_BUILD_ID_DIR ==
  USR_LIB_DEBUG \o <<".", "b", "u", "i", "l", "d", "-", "i", "d", "/">>

HexDigits ==
  <<"0", "1", "2", "3", "4", "5", "6", "7", "8", "9", "a", "b", "c", "d", "e", "f">>

\* strrchr (s, '/') as the index of the last slash, 0 for NULL.
strrchr_slash(s) ==
  LET I == {i \in 1..Len(s) : s[i] = "/"}
  IN IF I = {} THEN 0 ELSE CHOOSE i \in I : \A j \in I : j <= i

Lookup(F, p) == IF p \in DOMAIN F THEN F[p] ELSE <<>>

\* backtrace_open: succeeds on a regular file.
CanOpen(F, p) == Lookup(F, p) # <<>> /\ Lookup(F, p)[1].kind = "file"

\* elf_is_symlink: lstat succeeds and S_ISLNK.
elf_is_symlink(F, filename) ==
  Lookup(F, filename) # <<>> /\ Lookup(F, filename)[1].kind = "link"

\* elf_readlink: the link's target.
elf_readlink(F, filename) == Lookup(F, filename)[1].target

\* The body of the while (elf_is_symlink (filename)) loop of
\* elf_find_debugfile_by_debuglink once elf_readlink returned new_buf: the
\* filename of the next turn.
SymlinkTarget(filename, new_buf) ==
  LET slash == strrchr_slash(filename)
  IN IF Len(new_buf) > 0 /\ new_buf[1] = "/" THEN new_buf
     ELSE IF slash = 0 THEN new_buf
     ELSE SubSeq(filename, 1, slash) \o new_buf

\* The while (elf_is_symlink (filename)) loop of
\* elf_find_debugfile_by_debuglink, on a file system where it ends.
RECURSIVE ResolveSymlinks(_, _)
ResolveSymlinks(F, filename) ==
  IF ~elf_is_symlink(F, filename) THEN filename
  ELSE ResolveSymlinks(F, SymlinkTarget(filename, elf_readlink(F, filename)))

\* elf_try_debugfile / coff_try_debugfile: <<path>> when backtrace_open
\* succeeds on prefix + prefix2 + debuglink_name, <<>> for -1.
elf_try_debugfile(F, prefix, prefix2, debuglink_name) ==
  LET try == prefix \o prefix2 \o debuglink_name
  IN IF CanOpen(F, try) THEN <<try>> ELSE <<>>

coff_try_debugfile(F, prefix, prefix2, debuglink_name) ==
  LET try == prefix \o prefix2 \o debuglink_name
  IN IF CanOpen(F, try) THEN <<try>> ELSE <<>>

\* elf_find_debugfile_by_debuglink: the first of the three probes that opens.
elf_find_debugfile_by_debuglink(F, filename, debuglink_name) ==
  LET fn == ResolveSymlinks(F, filename)
      slash == strrchr_slash(fn)
      prefix == IF slash = 0 THEN <<>> ELSE SubSeq(fn, 1, slash)
      t1 == elf_try_debugfile(F, prefix, <<>>, debuglink_name)
      t2 == elf_try_debugfile(F, prefix, DOT_DEBUG, debuglink_name)
      t3 == elf_try_debugfile(F, USR_LIB_DEBUG, prefix, debuglink_name)
  IN IF t1 # <<>> THEN t1 ELSE IF t2 # <<>> THEN t2 ELSE t3

\* coff_find_debugfile_by_debuglink (built without HAVE_WINDOWS_H): no symlink
\* resolution; the separator is the last '/' (the model's paths hold no '\').
coff_find_debugfile_by_debuglink(F, filename, debuglink_name) ==
  LET slash == strrchr_slash(filename)
      prefix == IF slash = 0 THEN <<>> ELSE SubSeq(filename, 1, slash)
      t1 == coff_try_debugfile(F, prefix, <<>>, debuglink_name)
      t2 == coff_try_debugfile(F, prefix, DOT_DEBUG, debuglink_name)
      t3 == coff_try_debugfile(F, USR_LIB_DEBUG, prefix, debuglink_name)
  IN IF t1 # <<>> THEN t1 ELSE IF t2 # <<>> THEN t2 ELSE t3

\* elf_crc32_file / coff_crc32_file: 0 when the file cannot be mapped.
elf_crc32_file(F, p) ==
  IF ~F[p][1].viewok THEN Zero32 ELSE elf_crc32(Zero32, F[p][1].bytes)

coff_crc32_file(F, p) ==
  IF ~F[p][1].viewok THEN Zero32 ELSE coff_crc32(Zero32, F[p][1].bytes)

Err(msg, errnum) == [msg |-> msg, errnum |-> errnum]

\* What an open-by-debuglink call did: the file it opened (<<>> if none),
\* whether the descriptor is returned (otherwise -1), whether it closed the
\* file it opened, and the error_callback calls it made.
OpenResult(path, ok, closed, es) ==
  [path |-> path, ok |-> ok, closed |-> closed, errs |-> es]

\* A mutant of elf_open_debugfile_by_debuglink: the CRC is never compared.
elf_open_debugfile_by_debuglink_nocheck(F, filename, debuglink_name, debuglink_crc) ==
  LET found == elf_find_debugfile_by_debuglink(F, filename, debuglink_name)
  IN OpenResult(found, found # <<>>, FALSE, <<>>)

elf_open_debugfile_by_debuglink(F, filename, debuglink_name, debuglink_crc) ==
  LET found == elf_find_debugfile_by_debuglink(F, filename, debuglink_name)
  IN IF found = <<>> THEN OpenResult(<<>>, FALSE, FALSE, <<>>)
     ELSE IF debuglink_crc # Zero32
               /\ elf_crc32_file(F, found[1]) # debuglink_crc
       THEN OpenResult(found, FALSE, TRUE, <<>>)
       ELSE OpenResult(found, TRUE, FALSE, <<>>)

coff_open_debugfile_by_debuglink(F, filename, debuglink_name, debuglink_crc) ==
  LET found == coff_find_debugfile_by_debuglink(F, filename, debuglink_name)
  IN IF found = <<>> THEN OpenResult(<<>>, FALSE, FALSE, <<>>)
     ELSE IF debuglink_crc # Zero32
               /\ coff_crc32_file(F, found[1]) # debuglink_crc
       THEN OpenResult(found, FALSE, TRUE, <<Err("CRC mismatch", 0)>>)
       ELSE OpenResult(found, TRUE, FALSE, <<>>)

\* elf_open_debugfile_by_buildid: the path built from the build ID.
BuildidPath(buildid_data) ==
  LET Hex(b) == <<HexDigits[(b \div 16) + 1], HexDigits[(b % 16) + 1]>>
      Digits[i \in 0..Len(buildid_data)] ==
        IF i = 0 THEN <<>>
        ELSE Digits[i - 1] \o Hex(buildid_data[i]) \o (IF i = 1 THEN <<"/">> ELSE <<>>)
  IN SYSTEM_BUILD_ID_DIR \o Digits[Len(buildid_data)] \o DOT_DEBUG_SUFFIX

elf_open_debugfile_by_buildid(F, buildid_data) ==
  LET p == BuildidPath(buildid_data)
  IN IF CanOpen(F, p) THEN OpenResult(<<p>>, TRUE, FALSE, <<>>)
     ELSE OpenResult(<<>>, FALSE, FALSE, <<>>)

(***************************************************************************)
(* What elf_add / coff_add read from a file: the header fields they test,  *)
(* the section headers in file order, and what backtrace_dwarf_add makes   *)
(* of the debug sections.                                                  *)
(***************************************************************************)
NoImage == <<>>

Section(name, dname, crc, buildid, xzret, mini) ==
  [name |-> name, dname |-> dname, crc |-> crc, buildid |-> buildid,
   xzret |-> xzret, mini |-> mini]

Image(magic_ok, e_type, sections, dwarf_ok) ==
  [magic_ok |-> magic_ok, e_type |-> e_type, sections |-> sections,
   dwarf_ok |-> dwarf_ok]

RegularFile(bytes, viewok, img) ==
  <<[kind |-> "file", target |-> <<>>, bytes |-> bytes, viewok |-> viewok,
     img |-> img]>>

Symlink(target) ==
  <<[kind |-> "link", target |-> target, bytes |-> <<>>, viewok |-> TRUE,
     img |-> NoImage]>>

\* The locals of elf_add / coff_add that the section scan sets.  A pointer is
\* <<>> for NULL and <<value>> otherwise.
InitLocals ==
  [failed |-> FALSE,
   buildid_view_valid |-> FALSE, buildid_data |-> <<>>,
   debuglink_view_valid |-> FALSE, debuglink_name |-> <<>>,
   debuglink_crc |-> Zero32,
   debugaltlink_view_valid |-> FALSE, debugaltlink_name |-> <<>>,
   debugaltlink_buildid_data |-> <<>>,
   gnu_debugdata_valid |-> FALSE, gnu_debugdata_data |-> <<>>,
   symtab |-> FALSE, debug_sections |-> FALSE]

\* ElfScanSection without the comparison with with_buildid_data.
ElfScanSection_anyid(L, shdr, debuginfo, with_buildid_data) ==
  LET L1 == IF shdr.name = ".debug_info"
              THEN [L EXCEPT !.debug_sections = TRUE] ELSE L
      L2 == IF shdr.name = ".symtab" THEN [L1 EXCEPT !.symtab = TRUE] ELSE L1
      L3 == IF (~debuginfo \/ with_buildid_data # <<>>)
                 /\ ~L2.buildid_view_valid
                 /\ shdr.name = ".note.gnu.build-id"
              THEN [L2 EXCEPT !.buildid_view_valid = TRUE,
                              !.buildid_data = <<shdr.buildid>>,
                              !.failed = FALSE]
              ELSE L2
      L4 == IF ~debuginfo /\ ~L3.debuglink_view_valid
                 /\ shdr.name = ".gnu_debuglink"
              THEN [L3 EXCEPT !.debuglink_view_valid = TRUE,
                              !.debuglink_name = <<shdr.dname>>,
                              !.debuglink_crc = shdr.crc]
              ELSE L3
      L5 == IF ~L4.debugaltlink_view_valid /\ shdr.name = ".gnu_debugaltlink"
              THEN [L4 EXCEPT !.debugaltlink_view_valid = TRUE,
                              !.debugaltlink_name = <<shdr.dname>>,
                              !.debugaltlink_buildid_data = <<shdr.buildid>>]
              ELSE L4
      L6 == IF ~debuginfo /\ ~L5.debuglink_view_valid
                 /\ ~L5.debugaltlink_view_valid
                 /\ shdr.name = ".gnu_debugdata"
              THEN [L5 EXCEPT !.gnu_debugdata_valid = TRUE,
                              !.gnu_debugdata_data = <<shdr>>]
              ELSE L5
  IN IF L.failed THEN L ELSE IF L3.failed THEN L3 ELSE L6

\* One iteration of elf_add's loop over the section headers.
ElfScanSection(L, shdr, debuginfo, with_buildid_data) ==
  LET L1 == IF shdr.name = ".debug_info"
              THEN [L EXCEPT !.debug_sections = TRUE] ELSE L
      L2 == IF shdr.name = ".symtab" THEN [L1 EXCEPT !.symtab = TRUE] ELSE L1
      L3 == IF (~debuginfo \/ with_buildid_data # <<>>)
                 /\ ~L2.buildid_view_valid
                 /\ shdr.name = ".note.gnu.build-id"
              THEN [L2 EXCEPT !.buildid_view_valid = TRUE,
                              !.buildid_data = <<shdr.buildid>>,
                              !.failed =
                                 /\ with_buildid_data # <<>>
                                 /\ Len(with_buildid_data[1]) # 0
                                 /\ shdr.buildid # with_buildid_data[1]]
              ELSE L2
      L4 == IF ~debuginfo /\ ~L3.debuglink_view_valid
                 /\ shdr.name = ".gnu_debuglink"
              THEN [L3 EXCEPT !.debuglink_view_valid = TRUE,
                              !.debuglink_name = <<shdr.dname>>,
                              !.debuglink_crc = shdr.crc]
              ELSE L3
      L5 == IF ~L4.debugaltlink_view_valid /\ shdr.name = ".gnu_debugaltlink"
              THEN [L4 EXCEPT !.debugaltlink_view_valid = TRUE,
                              !.debugaltlink_name = <<shdr.dname>>,
                              !.debugaltlink_buildid_data = <<shdr.buildid>>]
              ELSE L4
      L6 == IF ~debuginfo /\ ~L5.debuglink_view_valid
                 /\ ~L5.debugaltlink_view_valid
                 /\ shdr.name = ".gnu_debugdata"
              THEN [L5 EXCEPT !.gnu_debugdata_valid = TRUE,
                              !.gnu_debugdata_data = <<shdr>>]
              ELSE L5
  IN IF L.failed THEN L ELSE IF L3.failed THEN L3 ELSE L6

\* elf_add's loop over the section headers, in file order; a goto fail inside
\* the loop ends it.
RECURSIVE ElfScanSections(_, _, _, _, _)
ElfScanSections(L, sections, i, debuginfo, with_buildid_data) ==
  IF i > Len(sections) \/ L.failed THEN L
  ELSE ElfScanSections(ElfScanSection(L, sections[i], debuginfo, with_buildid_data),
                       sections, i + 1, debuginfo, with_buildid_data)

\* One iteration of coff_add's loop over the section headers.
CoffScanSection(L, s) ==
  LET L1 == IF s.name = ".debug_info"
              THEN [L EXCEPT !.debug_sections = TRUE] ELSE L
      L2 == IF ~L1.debuglink_view_valid /\ s.name = ".gnu_debuglink"
              THEN [L1 EXCEPT !.debuglink_view_valid = TRUE,
                              !.debuglink_name = <<s.dname>>,
                              !.debuglink_crc = s.crc]
              ELSE L1
      L3 == IF ~L2.debugaltlink_view_valid /\ s.name = ".gnu_debugaltlink"
              THEN [L2 EXCEPT !.debugaltlink_view_valid = TRUE,
                              !.debugaltlink_name = <<s.dname>>]
              ELSE L2
  IN L3

RECURSIVE CoffScanSections(_, _, _)
CoffScanSections(L, sects, i) ==
  IF i > Len(sects) THEN L
  ELSE CoffScanSections(CoffScanSection(L, sects[i]), sects, i + 1)

\* The error_callback calls coff_add makes while scanning: one "Found
\* .gnu_debuglink" message for the first .gnu_debuglink section.
CoffScanMessages(sects) ==
  IF \E i \in 1..Len(sects) : sects[i].name = ".gnu_debuglink"
    THEN <<Err("Found .gnu_debuglink", 0)>> ELSE <<>>

\* One active call of elf_add / coff_add.
Frame(fn, src, filename, img, descriptor, exe, debuginfo, with_buildid_data) ==
  [fn |-> fn, src |-> src, filename |-> filename, img |-> img,
   descriptor |-> descriptor, exe |-> exe, debuginfo |-> debuginfo,
   with_buildid_data |-> with_buildid_data,
   pc |-> "enter", L |-> InitLocals, d |-> -1, ret |-> 0]

\* backtrace_open: the new descriptor is the next entry of the table.
OpenFd(tab, path) == Append(tab, [path |-> path, closes |-> 0, eio |-> FALSE])

\* backtrace_close: close (2) fails with EBADF when the descriptor is not open,
\* and with EIO when the file system says so (the eio mark of the descriptor);
\* either failure is reported and backtrace_close returns 0.
CloseOk(tab, fd) == fd \in 1..Len(tab) /\ tab[fd].closes = 0 /\ ~tab[fd].eio

CloseFd(tab, fd) ==
  IF fd \in 1..Len(tab) THEN [tab EXCEPT ![fd].closes = @ + 1] ELSE tab

CloseErrs(tab, fd) ==
  IF CloseOk(tab, fd) THEN <<>>
  ELSE IF fd \in 1..Len(tab) /\ tab[fd].closes = 0 THEN <<Err("close", 5)>>
  ELSE <<Err("close", 9)>>

Top == stack[Len(stack)]

\* return v from the innermost call: hand v to the caller, or finish.
ReturnStack(stk, v) ==
  IF Len(stk) = 1 THEN <<>>
  ELSE [SubSeq(stk, 1, Len(stk) - 1) EXCEPT ![Len(stk) - 1].ret = v]

ReturnResult(stk, v) == IF Len(stk) = 1 THEN <<v>> ELSE result

SetTop(stk, f) == [stk EXCEPT ![Len(stk)] = f]

\* The image a descriptor's file holds.
ImageOf(F, path) == F[path][1].img

\* A note of the separate debug source a call tried: which call (its depth),
\* which source, and whether a debug file was opened for it.
Attempt(depth, source, opened) ==
  [depth |-> depth, source |-> source, opened |-> opened]

(***************************************************************************)
(* elf_add, one action per stage of the function.                          *)
(***************************************************************************)
NotOpened == OpenResult(<<>>, FALSE, FALSE, <<>>)

\* The descriptor table after an open-by-... call that opened r.path and
\* perhaps closed it again.
FdAfterOpen(tab, r) ==
  LET tab1 == IF r.path # <<>> THEN OpenFd(tab, r.path[1]) ELSE tab
  IN IF r.closed THEN CloseFd(tab1, Len(tab1)) ELSE tab1

\* From the start of elf_add to the release of the section header views: the
\* header checks, the section scan and the symbol table.
ElfAddHeader ==
  /\ stack # <<>> /\ Top.fn = "elf_add" /\ Top.pc = "enter"
  /\ LET f == Top
         L == ElfScanSections(InitLocals, f.img.sections, 1, f.debuginfo,
                              f.with_buildid_data)
     IN IF ~f.img.magic_ok
          THEN /\ errs' = Append(errs, Err("executable file is not ELF", 0))
               /\ stack' = SetTop(stack, [f EXCEPT !.pc = "fail"])
               /\ UNCHANGED <<found_sym, result>>
          ELSE IF f.exe /\ f.img.e_type = "ET_DYN"
            THEN /\ stack' = ReturnStack(stack, -1)
                 /\ result' = ReturnResult(stack, -1)
                 /\ UNCHANGED <<errs, found_sym>>
            ELSE /\ stack' = SetTop(stack,
                       [f EXCEPT !.L = L,
                                 !.pc = IF L.failed THEN "fail" ELSE "buildid"])
                 /\ found_sym' =
                      (found_sym \/ (~L.failed /\ L.symtab /\ ~f.debuginfo))
                 /\ UNCHANGED <<errs, result>>
  /\ UNCHANGED <<fmt, fs, fdtab, attempts, found_dwarf, registered, macho>>
  /\ UNCHANGED otherThanRes

\* if (buildid_data != NULL) ... up to the recursive call.
ElfAddBuildid ==
  /\ stack # <<>> /\ Top.fn = "elf_add" /\ Top.pc = "buildid"
  /\ LET f == Top
         tried == f.L.buildid_data # <<>>
         r == IF tried THEN elf_open_debugfile_by_buildid(fs, f.L.buildid_data[1])
              ELSE NotOpened
         tab == FdAfterOpen(fdtab, r)
     IN /\ r.ok => Len(stack) < MaxNesting
        /\ fdtab' = tab
        /\ attempts' = IF tried
             THEN Append(attempts, Attempt(Len(stack), "buildid", r.ok))
             ELSE attempts
        /\ stack' = IF r.ok
             THEN Append(SetTop(stack, [f EXCEPT !.pc = "buildid_ret", !.d = Len(tab)]),
                         Frame("elf_add", "buildid", <<>>, ImageOf(fs, r.path[1]),
                               Len(tab), FALSE, TRUE, <<>>))
             ELSE SetTop(stack, [f EXCEPT !.pc = "debuglink"])
  /\ UNCHANGED <<fmt, fs, errs, result, found_sym, found_dwarf, registered, macho>>
  /\ UNCHANGED otherThanRes

\* After the recursive call on the build-id or debuglink file:
\* if (ret < 0) close (d) else close (descriptor); return ret.
ElfAddDebugfileRet ==
  /\ stack # <<>> /\ Top.fn = "elf_add"
  /\ Top.pc \in {"buildid_ret", "debuglink_ret"}
  /\ LET f == Top
         fd == IF f.ret < 0 THEN f.d ELSE f.descriptor
     IN /\ fdtab' = CloseFd(fdtab, fd)
        /\ errs' = errs \o CloseErrs(fdtab, fd)
        /\ stack' = ReturnStack(stack, f.ret)
        /\ result' = ReturnResult(stack, f.ret)
  /\ UNCHANGED <<fmt, fs, attempts, found_sym, found_dwarf, registered, macho>>
  /\ UNCHANGED otherThanRes

\* if (debuglink_name != NULL) ... up to the recursive call.
ElfAddDebuglink ==
  /\ stack # <<>> /\ Top.fn = "elf_add" /\ Top.pc = "debuglink"
  /\ LET f == Top
         tried == f.L.debuglink_name # <<>>
         r == IF tried
                THEN elf_open_debugfile_by_debuglink(fs, f.filename,
                       f.L.debuglink_name[1], f.L.debuglink_crc)
                ELSE NotOpened
         tab == FdAfterOpen(fdtab, r)
     IN /\ r.ok => Len(stack) < MaxNesting
        /\ fdtab' = tab
        /\ errs' = errs \o r.errs
        /\ attempts' = IF tried
             THEN Append(attempts, Attempt(Len(stack), "debuglink", r.ok))
             ELSE attempts
        /\ stack' = IF r.ok
             THEN Append(SetTop(stack, [f EXCEPT !.pc = "debuglink_ret", !.d = Len(tab)]),
                         Frame("elf_add", "debuglink", <<>>, ImageOf(fs, r.path[1]),
                               Len(tab), FALSE, TRUE, <<>>))
             ELSE SetTop(stack, [f EXCEPT !.pc = "debugdata"])
  /\ UNCHANGED <<fmt, fs, result, found_sym, found_dwarf, registered, macho>>
  /\ UNCHANGED otherThanRes

\* The error_callback call elf_uncompress_lzma_gnu_debugdata makes for the
\* code the decoder ended with.
XzError(ret) ==
  IF ret = "XZ_MEM_ERROR"
    THEN Err("XZ decompressor ran out of memory", 12)
  ELSE IF ret = "XZ_FORMAT_ERROR"
    THEN Err("Input is not in the XZ format (wrong magic bytes)", 22)
  ELSE IF ret = "XZ_OPTIONS_ERROR"
    THEN Err("Input was encoded with settings that are not supported by this XZ decoder", 22)
  ELSE IF ret \in {"XZ_DATA_ERROR", "XZ_BUF_ERROR"}
    THEN Err("XZ-compressed data is corrupt", 22)
  ELSE Err("Bug in the XZ decompressor", 5)

\* if (gnu_debugdata_data != NULL) ... up to the recursive call.
ElfAddDebugdata ==
  /\ stack # <<>> /\ Top.fn = "elf_add" /\ Top.pc = "debugdata"
  /\ LET f == Top
         tried == f.L.gnu_debugdata_data # <<>>
         sec == f.L.gnu_debugdata_data[1]
     IN IF ~tried
          THEN /\ stack' = SetTop(stack, [f EXCEPT !.pc = "altlink"])
               /\ UNCHANGED <<errs, attempts>>
          ELSE /\ sec.xzret = "XZ_STREAM_END" => Len(stack) < MaxNesting
               /\ attempts' = Append(attempts,
                    Attempt(Len(stack), "debugdata", sec.xzret = "XZ_STREAM_END"))
               /\ IF sec.xzret # "XZ_STREAM_END"
                    THEN /\ errs' = Append(errs, XzError(sec.xzret))
                         /\ stack' = SetTop(stack, [f EXCEPT !.pc = "fail"])
                    ELSE /\ errs' = errs
                         /\ stack' = Append(
                              SetTop(stack, [f EXCEPT !.pc = "debugdata_ret"]),
                              Frame("elf_add", "debugdata", f.filename,
                                    sec.mini[1], -1, FALSE, TRUE, <<>>))
  /\ UNCHANGED <<fmt, fs, fdtab, result, found_sym, found_dwarf, registered, macho>>
  /\ UNCHANGED otherThanRes

\* After the recursive call on the MiniDebugInfo image:
\* if (ret >= 0) close (descriptor); return ret.
ElfAddDebugdataRet ==
  /\ stack # <<>> /\ Top.fn = "elf_add" /\ Top.pc = "debugdata_ret"
  /\ LET f == Top
     IN /\ fdtab' = IF f.ret >= 0 THEN CloseFd(fdtab, f.descriptor) ELSE fdtab
        /\ errs' = IF f.ret >= 0 THEN errs \o CloseErrs(fdtab, f.descriptor)
                   ELSE errs
        /\ stack' = ReturnStack(stack, f.ret)
        /\ result' = ReturnResult(stack, f.ret)
  /\ UNCHANGED <<fmt, fs, attempts, found_sym, found_dwarf, registered, macho>>
  /\ UNCHANGED otherThanRes

\* if (debugaltlink_name != NULL) ... up to the recursive call.
ElfAddAltlink ==
  /\ stack # <<>> /\ Top.fn = "elf_add" /\ Top.pc = "altlink"
  /\ LET f == Top
         tried == f.L.debugaltlink_name # <<>>
         r == IF tried
                THEN elf_open_debugfile_by_debuglink(fs, f.filename,
                       f.L.debugaltlink_name[1], Zero32)
                ELSE NotOpened
         tab == FdAfterOpen(fdtab, r)
     IN /\ r.ok => Len(stack) < MaxNesting
        /\ fdtab' = tab
        /\ errs' = errs \o r.errs
        /\ attempts' = IF tried
             THEN Append(attempts, Attempt(Len(stack), "altlink", r.ok))
             ELSE attempts
        /\ stack' = IF r.ok
             THEN Append(SetTop(stack, [f EXCEPT !.pc = "altlink_ret", !.d = Len(tab)]),
                         Frame("elf_add", "altlink", f.filename,
                               ImageOf(fs, r.path[1]), Len(tab), FALSE, TRUE,
                               f.L.debugaltlink_buildid_data))
             ELSE SetTop(stack, [f EXCEPT !.pc = "sections"])
  /\ UNCHANGED <<fmt, fs, result, found_sym, found_dwarf, registered, macho>>
  /\ UNCHANGED otherThanRes

\* After the recursive call on the debugaltlink file:
\* if (ret < 0) { close (d); return ret; }, otherwise on to the own sections.
ElfAddAltlinkRet ==
  /\ stack # <<>> /\ Top.fn = "elf_add" /\ Top.pc = "altlink_ret"
  /\ LET f == Top
     IN IF f.ret < 0
          THEN /\ fdtab' = CloseFd(fdtab, f.d)
               /\ errs' = errs \o CloseErrs(fdtab, f.d)
               /\ stack' = ReturnStack(stack, f.ret)
               /\ result' = ReturnResult(stack, f.ret)
          ELSE /\ stack' = SetTop(stack, [f EXCEPT !.pc = "sections"])
               /\ UNCHANGED <<fdtab, errs, result>>
  /\ UNCHANGED <<fmt, fs, attempts, found_sym, found_dwarf, registered, macho>>
  /\ UNCHANGED otherThanRes

\* The file's own debug sections: from min_offset = 0 to return 1.
ElfAddSections ==
  /\ stack # <<>> /\ Top.fn = "elf_add" /\ Top.pc = "sections"
  /\ LET f == Top
         closing == f.descriptor >= 0
         closed_ok == ~closing \/ CloseOk(fdtab, f.descriptor)
     IN /\ fdtab' = IF closing THEN CloseFd(fdtab, f.descriptor) ELSE fdtab
        /\ errs' = IF closing THEN errs \o CloseErrs(fdtab, f.descriptor) ELSE errs
        /\ IF ~closed_ok
             THEN /\ stack' = SetTop(stack, [f EXCEPT !.pc = "fail"])
                  /\ UNCHANGED <<result, found_dwarf>>
             ELSE IF ~f.L.debug_sections
               THEN /\ stack' = ReturnStack(stack, 1)
                    /\ result' = ReturnResult(stack, 1)
                    /\ UNCHANGED found_dwarf
               ELSE IF ~f.img.dwarf_ok
                 THEN /\ stack' = SetTop(stack,
                           [f EXCEPT !.pc = "fail", !.descriptor = -1])
                      /\ UNCHANGED <<result, found_dwarf>>
                 ELSE /\ found_dwarf' = TRUE
                      /\ stack' = ReturnStack(stack, 1)
                      /\ result' = ReturnResult(stack, 1)
        /\ registered' =
             IF closed_ok /\ f.L.debug_sections /\ f.img.dwarf_ok
               THEN Append(registered, [src |-> f.src, fd |-> f.descriptor])
               ELSE registered
  /\ UNCHANGED <<fmt, fs, attempts, found_sym, macho>>
  /\ UNCHANGED otherThanRes

\* fail: release the views; if (descriptor != -1) close (descriptor); return 0.
ElfAddFail ==
  /\ stack # <<>> /\ Top.fn = "elf_add" /\ Top.pc = "fail"
  /\ LET f == Top
     IN /\ fdtab' = IF f.descriptor # -1 THEN CloseFd(fdtab, f.descriptor)
                    ELSE fdtab
        /\ errs' = IF f.descriptor # -1 THEN errs \o CloseErrs(fdtab, f.descriptor)
                   ELSE errs
        /\ stack' = ReturnStack(stack, 0)
        /\ result' = ReturnResult(stack, 0)
  /\ UNCHANGED <<fmt, fs, attempts, found_sym, found_dwarf, registered, macho>>
  /\ UNCHANGED otherThanRes

(***************************************************************************)
(* coff_add, one action per stage of the function.                         *)
(***************************************************************************)
\* From the start of coff_add to the release of the section header views.
CoffAddHeader ==
  /\ stack # <<>> /\ Top.fn = "coff_add" /\ Top.pc = "enter"
  /\ LET f == Top
         L == CoffScanSections(InitLocals, f.img.sections, 1)
     IN IF ~f.img.magic_ok
          THEN /\ errs' = Append(errs, Err("executable file is not COFF", 0))
               /\ stack' = SetTop(stack, [f EXCEPT !.pc = "fail"])
               /\ UNCHANGED found_sym
          ELSE /\ errs' = errs \o CoffScanMessages(f.img.sections)
               /\ stack' = SetTop(stack, [f EXCEPT !.L = L, !.pc = "debuglink"])
               /\ found_sym' =
                    (found_sym
                       \/ \E i \in 1..Len(f.img.sections) :
                             f.img.sections[i].name = ".symtab")
  /\ UNCHANGED <<fmt, fs, fdtab, attempts, result, found_dwarf, registered, macho>>
  /\ UNCHANGED otherThanRes

\* if (debuglink_name != NULL) / if (debugaltlink_name != NULL), up to the
\* recursive call.
CoffAddDebuglink ==
  /\ stack # <<>> /\ Top.fn = "coff_add" /\ Top.pc \in {"debuglink", "altlink"}
  /\ LET f == Top
         alt == f.pc = "altlink"
         name == IF alt THEN f.L.debugaltlink_name ELSE f.L.debuglink_name
         tried == name # <<>>
         r == IF tried
                THEN coff_open_debugfile_by_debuglink(fs, f.filename, name[1],
                       IF alt THEN Zero32 ELSE f.L.debuglink_crc)
                ELSE NotOpened
         tab == FdAfterOpen(fdtab, r)
         next == IF alt THEN "sections" ELSE "altlink"
     IN /\ r.ok => Len(stack) < MaxNesting
        /\ fdtab' = tab
        /\ errs' = errs \o r.errs \o
             (IF tried /\ r.ok /\ ~alt THEN <<Err("Using external debug file", 0)>>
              ELSE IF tried /\ ~r.ok THEN <<Err("Could not open/validate", 0)>>
              ELSE <<>>)
        /\ attempts' = IF tried
             THEN Append(attempts, Attempt(Len(stack), f.pc, r.ok))
             ELSE attempts
        /\ stack' = IF r.ok
             THEN Append(SetTop(stack, [f EXCEPT !.pc = IF alt THEN "altlink_ret" ELSE "debuglink_ret",
                                                   !.d = Len(tab)]),
                         Frame("coff_add", f.pc,
                               IF alt THEN f.filename ELSE name[1],
                               ImageOf(fs, r.path[1]), Len(tab), FALSE, FALSE, <<>>))
             ELSE SetTop(stack, [f EXCEPT !.pc = next])
  /\ UNCHANGED <<fmt, fs, result, found_sym, found_dwarf, registered, macho>>
  /\ UNCHANGED otherThanRes

\* After the recursive call: if (ret <= 0) report, close (d) and fall back;
\* else close (descriptor) and return ret.
CoffAddDebuglinkRet ==
  /\ stack # <<>> /\ Top.fn = "coff_add"
  /\ Top.pc \in {"debuglink_ret", "altlink_ret"}
  /\ LET f == Top
         next == IF f.pc = "debuglink_ret" THEN "altlink" ELSE "sections"
     IN IF f.ret <= 0
          THEN /\ errs' = Append(errs, Err("Failed to parse external debug file", 0))
                            \o CloseErrs(fdtab, f.d)
               /\ fdtab' = CloseFd(fdtab, f.d)
               /\ stack' = SetTop(stack, [f EXCEPT !.pc = next])
               /\ UNCHANGED result
          ELSE /\ errs' = IF f.descriptor >= 0
                            THEN errs \o CloseErrs(fdtab, f.descriptor) ELSE errs
               /\ fdtab' = IF f.descriptor >= 0 THEN CloseFd(fdtab, f.descriptor)
                           ELSE fdtab
               /\ stack' = ReturnStack(stack, f.ret)
               /\ result' = ReturnResult(stack, f.ret)
  /\ UNCHANGED <<fmt, fs, attempts, found_sym, found_dwarf, registered, macho>>
  /\ UNCHANGED otherThanRes

\* The file's own debug sections: from min_offset = 0 to return 1.
CoffAddSections ==
  /\ stack # <<>> /\ Top.fn = "coff_add" /\ Top.pc = "sections"
  /\ LET f == Top
         closed_ok == CloseOk(fdtab, f.descriptor)
     IN /\ fdtab' = CloseFd(fdtab, f.descriptor)
        /\ errs' = errs \o CloseErrs(fdtab, f.descriptor)
        /\ IF ~closed_ok
             THEN /\ stack' = SetTop(stack, [f EXCEPT !.pc = "fail"])
                  /\ UNCHANGED <<result, found_dwarf>>
             ELSE IF ~f.L.debug_sections
               THEN /\ stack' = ReturnStack(stack, 1)
                    /\ result' = ReturnResult(stack, 1)
                    /\ UNCHANGED found_dwarf
               ELSE IF ~f.img.dwarf_ok
                 THEN /\ stack' = SetTop(stack,
                           [f EXCEPT !.pc = "fail", !.descriptor = -1])
                      /\ UNCHANGED <<result, found_dwarf>>
                 ELSE /\ found_dwarf' = TRUE
                      /\ stack' = ReturnStack(stack, 1)
                      /\ result' = ReturnResult(stack, 1)
        /\ registered' =
             IF closed_ok /\ f.L.debug_sections /\ f.img.dwarf_ok
               THEN Append(registered, [src |-> f.src, fd |-> f.descriptor])
               ELSE registered
  /\ UNCHANGED <<fmt, fs, attempts, found_sym, macho>>
  /\ UNCHANGED otherThanRes

\* fail: release the views; if (descriptor != -1) close (descriptor); return 0.
CoffAddFail ==
  /\ stack # <<>> /\ Top.fn = "coff_add" /\ Top.pc = "fail"
  /\ LET f == Top
     IN /\ fdtab' = IF f.descriptor # -1 THEN CloseFd(fdtab, f.descriptor)
                    ELSE fdtab
        /\ errs' = IF f.descriptor # -1 THEN errs \o CloseErrs(fdtab, f.descriptor)
                   ELSE errs
        /\ stack' = ReturnStack(stack, 0)
        /\ result' = ReturnResult(stack, 0)
  /\ UNCHANGED <<fmt, fs, attempts, found_sym, found_dwarf, registered, macho>>
  /\ UNCHANGED otherThanRes

(***************************************************************************)
(* The files the resolver runs on.  The primary file is /a/p, perhaps      *)
(* reached through the symbolic link /b/l; its .gnu_debuglink names "d",   *)
(* its .gnu_debugaltlink names "z", its build ID is ab cd.                 *)
(***************************************************************************)
PRIMARY == <<"/", "a", "/", "p">>

PRIMARY_LINK == <<"/", "b", "/", "l">>

DEBUGLINK_NAME == <<"d">>

ALTLINK_NAME == <<"z">>

BUILDID == <<171, 205>>

DebuglinkPlaces ==
  [sibling |-> <<"/", "a", "/", "d">>,
   dotdebug |-> <<"/", "a", "/", ".", "d", "e", "b", "u", "g", "/", "d">>,
   usr |-> <<"/", "u", "s", "r", "/", "l", "i", "b", "/", "d", "e", "b", "u", "g", "/", "/", "a", "/", "d">>]

ALTLINK_PATH == <<"/", "a", "/", "z">>

\* the file a debugaltlink target's own .gnu_debugaltlink names
ALTLINK2_NAME == <<"y">>

ALTLINK2_PATH == <<"/", "a", "/", "y">>

\* The build ID the .gnu_debugaltlink section records for its target.
ALTLINK_BUILDID == <<18>>

Kinds == {"buildid", "debuglink", "debugdata", "altlink"}

\* The documented probing order of the separate debug sources.
Rank(k) ==
  IF k = "buildid" THEN 1 ELSE IF k = "debuglink" THEN 2
  ELSE IF k = "debugdata" THEN 3 ELSE 4

\* The orders in which the primary file may hold the four link sections: any
\* arrangement of at most two of them, and the ascending and descending
\* arrangements of three or four.
Orders ==
  {o \in UNION {[1..n -> Kinds] : n \in 0..4} :
     /\ \A i, j \in 1..Len(o) : i # j => o[i] # o[j]
     /\ \/ Len(o) <= 2
        \/ \A i \in 1..(Len(o) - 1) : Rank(o[i]) < Rank(o[i + 1])
        \/ \A i \in 1..(Len(o) - 1) : Rank(o[i]) > Rank(o[i + 1])}

XzOutcomes ==
  {"XZ_STREAM_END", "XZ_FORMAT_ERROR", "XZ_OPTIONS_ERROR", "XZ_DATA_ERROR"}

ContentA == <<1>>

ContentB == <<2>>

PlainSection(name) == Section(name, <<>>, Zero32, <<>>, "", <<>>)

\* A debug file that parses, and one that is not an ELF / COFF file.
DebugImage == Image(TRUE, "ET_EXEC", <<PlainSection(".debug_info")>>, TRUE)

BadImage == Image(FALSE, "ET_EXEC", <<>>, FALSE)

\* The ELF image a .gnu_debugdata blob decompresses to.
MiniImage ==
  Image(TRUE, "ET_EXEC", <<PlainSection(".symtab"), PlainSection(".debug_info")>>, TRUE)

\* The debugaltlink target: with the recorded build ID, another, a note that
\* is not a build ID note (no build ID is read from it), or no note;
\* "chain" is a target that holds a .gnu_debugaltlink section of its own,
\* naming a third file, "self" one whose .gnu_debugaltlink names the target
\* itself.
AltImage(alt) ==
  Image(TRUE, "ET_EXEC",
        (IF alt \in {"good", "self"}
           THEN <<Section(".note.gnu.build-id", <<>>, Zero32, ALTLINK_BUILDID, "", <<>>)>>
         ELSE IF alt = "mismatch"
           THEN <<Section(".note.gnu.build-id", <<>>, Zero32, <<19>>, "", <<>>)>>
         ELSE IF alt = "malformed"
           THEN <<Section(".note.gnu.build-id", <<>>, Zero32, <<>>, "", <<>>)>>
         ELSE <<>>)
          \o (IF alt = "chain"
                THEN <<Section(".gnu_debugaltlink", ALTLINK2_NAME, Zero32, <<>>, "", <<>>)>>
              ELSE IF alt = "self"
                THEN <<Section(".gnu_debugaltlink", ALTLINK_NAME, Zero32,
                               ALTLINK_BUILDID, "", <<>>)>>
              ELSE <<>>)
          \o <<PlainSection(".debug_info")>>,
        TRUE)

KindSection(w, k) ==
  IF k = "buildid"
    THEN Section(".note.gnu.build-id", <<>>, Zero32, BUILDID, "", <<>>)
  ELSE IF k = "debuglink"
    THEN Section(".gnu_debuglink", DEBUGLINK_NAME, w.dl_crc, <<>>, "", <<>>)
  ELSE IF k = "debugdata"
    THEN Section(".gnu_debugdata", <<>>, Zero32, <<>>, w.xz, <<MiniImage>>)
  ELSE Section(".gnu_debugaltlink", ALTLINK_NAME, Zero32, ALTLINK_BUILDID, "", <<>>)

PrimaryImage(w) ==
  Image(TRUE, w.e_type,
        [i \in 1..Len(w.order) |-> KindSection(w, w.order[i])]
          \o <<PlainSection(".symtab")>>
          \o (IF w.own THEN <<PlainSection(".debug_info")>> ELSE <<>>),
        TRUE)

\* The file system of world w.
FsOf(w) ==
  LET Paths == {PRIMARY, PRIMARY_LINK, ALTLINK_PATH, ALTLINK2_PATH,
                BuildidPath(BUILDID),
                DebuglinkPlaces.sibling, DebuglinkPlaces.dotdebug,
                DebuglinkPlaces.usr}
  IN [p \in Paths |->
       IF p = PRIMARY THEN RegularFile(<<>>, TRUE, PrimaryImage(w))
       ELSE IF p = PRIMARY_LINK
         THEN (IF w.via = "link" THEN Symlink(PRIMARY) ELSE <<>>)
       ELSE IF p = ALTLINK_PATH
         THEN (IF w.alt = "none" THEN <<>>
               ELSE RegularFile(<<>>, TRUE, AltImage(w.alt)))
       ELSE IF p = ALTLINK2_PATH
         THEN (IF w.alt = "chain" THEN RegularFile(<<>>, TRUE, DebugImage)
               ELSE <<>>)
       ELSE IF p = BuildidPath(BUILDID)
         THEN (IF w.bid = "none" THEN <<>>
               ELSE RegularFile(<<>>, TRUE,
                      IF w.bid = "good" THEN DebugImage ELSE BadImage))
       ELSE IF w.dl_loc # "none" /\ p = DebuglinkPlaces[w.dl_loc]
         THEN RegularFile(IF w.dl_file = "B" THEN ContentB ELSE ContentA,
                          w.dl_file # "U",
                          IF w.dl_file = "X" THEN BadImage ELSE DebugImage)
       ELSE <<>>]

\* The worlds: every combination of the choices that matter for the sections
\* the primary file holds.
Has(w, k) == \E i \in 1..Len(w.order) : w.order[i] = k

Worlds ==
  {w \in [fmt : {"elf", "coff"}, order : Orders, own : BOOLEAN,
          via : {"direct", "link"}, exe : BOOLEAN,
          e_type : {"ET_EXEC", "ET_DYN"},
          bid : {"none", "good", "bad"},
          dl_loc : {"none", "sibling", "dotdebug", "usr"},
          dl_file : {"A", "B", "U", "X"},
          dl_crc : {Zero32, elf_crc32(Zero32, ContentA)},
          xz : XzOutcomes,
          alt : {"none", "good", "mismatch", "malformed", "noid", "chain",
                 "self"},
          eio : BOOLEAN] :
     /\ ~Has(w, "buildid") => w.bid = "none"
     /\ ~Has(w, "debuglink") =>
          w.dl_loc = "none" /\ w.dl_crc = Zero32
     /\ w.dl_loc = "none" => w.dl_file = "A"
     /\ ~Has(w, "debugdata") => w.xz = "XZ_STREAM_END"
     /\ ~Has(w, "altlink") => w.alt = "none"
     /\ (~w.exe \/ w.e_type = "ET_DYN") =>
          w.order = <<"debuglink">> /\ w.via = "direct"
     /\ w.via = "link" => Len(w.order) <= 2
     /\ Len(w.order) >= 3 =>
          /\ w.xz \in {"XZ_STREAM_END", "XZ_DATA_ERROR"}
          /\ w.alt \in {"none", "good"}
          /\ w.dl_file \in {"A", "B"}
     /\ w.fmt = "coff" =>
          /\ w.exe /\ w.e_type = "ET_EXEC"
          /\ ~Has(w, "buildid") /\ ~Has(w, "debugdata")
          /\ w.alt \in {"none", "noid", "chain", "self"}
     /\ w.alt \in {"chain", "self"} =>
          /\ w.order = <<"altlink">>
          /\ w.via = "direct" /\ w.exe /\ w.e_type = "ET_EXEC"
     /\ w.eio =>
          /\ Len(w.order) <= 1
          /\ w.via = "direct" /\ w.exe /\ w.e_type = "ET_EXEC"}

MachoIdle == [pc |-> "idle", dirname |-> <<>>, dir |-> <<>>, i |-> 0, uuid |-> <<>>]

ElfCoffInit ==
  \E w \in Worlds :
    /\ fmt = w.fmt
    /\ fs = FsOf(w)
    /\ stack = <<Frame(IF w.fmt = "elf" THEN "elf_add" ELSE "coff_add", "primary",
                       IF w.via = "link" THEN PRIMARY_LINK ELSE PRIMARY,
                       PrimaryImage(w), 1, w.exe, FALSE, <<>>)>>
    /\ fdtab = <<[path |-> PRIMARY, closes |-> 0, eio |-> w.eio]>>
    /\ errs = <<>>
    /\ attempts = <<>>
    /\ result = <<>>
    /\ found_sym = FALSE
    /\ found_dwarf = FALSE
    /\ registered = <<>>
    /\ macho = MachoIdle

ResIdle ==
  /\ fmt = "none"
  /\ fs = <<>>
  /\ stack = <<>>
  /\ fdtab = <<>>
  /\ errs = <<>>
  /\ attempts = <<>>
  /\ result = <<>>
  /\ found_sym = FALSE
  /\ found_dwarf = FALSE
  /\ registered = <<>>
  /\ macho = MachoIdle

(***************************************************************************)
(* macho.c: macho_try_dsym and macho_try_dwarf.                            *)
(***************************************************************************)
\* sizeof (uuid_t)
UUID_SIZE == 16

\* What the reader sees of a Mach-O file: the header magic, the load
\* commands in order, whether a __DWARF segment holds debug sections, and
\* what backtrace_dwarf_add makes of them.
MachoImage(magic_ok, cmds, dwarf, dwarf_ok) ==
  [magic_ok |-> magic_ok, cmds |-> cmds, dwarf |-> dwarf, dwarf_ok |-> dwarf_ok]

LoadCommand(cmd, uuid) == [cmd |-> cmd, uuid |-> uuid]

\* macho_get_commands: the views of the header and of the load commands.
macho_get_commands(F, path, fd) ==
  IF fd < 0 THEN [ok |-> FALSE, errs |-> <<Err("mmap", 9)>>]
  ELSE IF ~ImageOf(F, path).magic_ok
    THEN [ok |-> FALSE,
          errs |-> <<Err("executable file is not a Mach-O image", 0)>>]
    ELSE [ok |-> TRUE, errs |-> <<>>]

\* macho_get_uuid: the uuid of the first LC_UUID command.
macho_get_uuid(cmds) ==
  LET I == {i \in 1..Len(cmds) : cmds[i].cmd = "LC_UUID"}
  IN IF I = {}
       THEN [ok |-> FALSE, uuid |-> <<>>,
             errs |-> <<Err("executable file is missing an identifying uuid", 0)>>]
       ELSE [ok |-> TRUE, uuid |-> cmds[CHOOSE i \in I : \A j \in I : i <= j].uuid,
             errs |-> <<>>]

\* memcmp (a, b, n) != 0
memcmp_differs(a, b, n) == \E i \in 1..n : a[i] # b[i]

TryDwarfResult(ret, tab, es, reg) ==
  [ret |-> ret, fdtab |-> tab, errs |-> es, registered |-> reg]

\* A mutant of macho_try_dwarf: the dSYM's uuid is not compared.
macho_try_dwarf_nocompare(F, tab, executable_uuid, dwarf_filename) ==
  LET can == CanOpen(F, dwarf_filename)
      tab1 == IF can THEN OpenFd(tab, dwarf_filename) ELSE tab
      fd == IF can THEN Len(tab1) ELSE -1
      cmds == macho_get_commands(F, dwarf_filename, fd)
      img == ImageOf(F, dwarf_filename)
      u == macho_get_uuid(img.cmds)
      closed == CloseFd(tab1, fd)
      cerr == CloseErrs(tab1, fd)
  IN IF ~cmds.ok THEN TryDwarfResult(0, closed, cmds.errs \o cerr, <<>>)
     ELSE IF ~u.ok
       THEN TryDwarfResult(0, closed,
              u.errs \o <<Err("dSYM file is missing an identifying uuid", 0)>> \o cerr,
              <<>>)
     ELSE IF ~img.dwarf THEN TryDwarfResult(0, closed, cerr, <<>>)
     ELSE IF ~img.dwarf_ok THEN TryDwarfResult(0, closed, cerr, <<>>)
     ELSE TryDwarfResult(1, tab1, <<>>, <<[src |-> "dsym", fd |-> fd]>>)

\* macho_try_dwarf.  backtrace_open returns -1 on failure, which the test
\* against 0 lets through to macho_get_commands.
macho_try_dwarf(F, tab, executable_uuid, dwarf_filename) ==
  LET can == CanOpen(F, dwarf_filename)
      tab1 == IF can THEN OpenFd(tab, dwarf_filename) ELSE tab
      fd == IF can THEN Len(tab1) ELSE -1
      cmds == macho_get_commands(F, dwarf_filename, fd)
      img == ImageOf(F, dwarf_filename)
      u == macho_get_uuid(img.cmds)
      closed == CloseFd(tab1, fd)
      cerr == CloseErrs(tab1, fd)
  IN IF ~cmds.ok THEN TryDwarfResult(0, closed, cmds.errs \o cerr, <<>>)
     ELSE IF ~u.ok
       THEN TryDwarfResult(0, closed,
              u.errs \o <<Err("dSYM file is missing an identifying uuid", 0)>> \o cerr,
              <<>>)
     ELSE IF memcmp_differs(executable_uuid, u.uuid, UUID_SIZE)
       THEN TryDwarfResult(0, closed, cerr, <<>>)
     ELSE IF ~img.dwarf THEN TryDwarfResult(0, closed, cerr, <<>>)
     ELSE IF ~img.dwarf_ok THEN TryDwarfResult(0, closed, cerr, <<>>)
     ELSE TryDwarfResult(1, tab1, <<>>, <<[src |-> "dsym", fd |-> fd]>>)

\* macho_try_dsym up to the loop: opendir on <dsym>/Contents/Resources/DWARF.
MachoOpenDir ==
  /\ macho.pc = "opendir"
  /\ IF Lookup(fs, macho.dirname) = <<>>
       THEN /\ errs' = Append(errs, Err("could not open DWARF directory in dSYM", 0))
            /\ result' = <<0>>
            /\ macho' = [macho EXCEPT !.pc = "done"]
       ELSE /\ macho' = [macho EXCEPT !.pc = "readdir", !.i = 1]
            /\ UNCHANGED <<errs, result>>
  /\ UNCHANGED <<fmt, fs, stack, fdtab, attempts, found_sym, found_dwarf, registered>>
  /\ UNCHANGED otherThanRes

\* One iteration of the readdir loop, or its end.
MachoReadDir ==
  /\ macho.pc = "readdir"
  /\ IF macho.i > Len(macho.dir)
       THEN /\ result' = <<0>>
            /\ macho' = [macho EXCEPT !.pc = "done"]
            /\ UNCHANGED <<fdtab, errs, registered, attempts>>
       ELSE LET dwarf_filename == macho.dirname \o <<"/">> \o macho.dir[macho.i]
                reg == Lookup(fs, dwarf_filename)[1].kind \in {"file", "noperm"}
                r == macho_try_dwarf(fs, fdtab, macho.uuid, dwarf_filename)
            IN IF ~reg
                 THEN /\ macho' = [macho EXCEPT !.i = @ + 1]
                      /\ UNCHANGED <<fdtab, errs, registered, attempts, result>>
                 ELSE /\ fdtab' = r.fdtab
                      /\ errs' = errs \o r.errs
                      /\ registered' = registered \o r.registered
                      /\ attempts' = Append(attempts, Attempt(1, "dsym", r.ret # 0))
                      /\ IF r.ret # 0
                           THEN /\ result' = <<1>>
                                /\ macho' = [macho EXCEPT !.pc = "done"]
                           ELSE /\ macho' = [macho EXCEPT !.i = @ + 1]
                                /\ UNCHANGED result
  /\ UNCHANGED <<fmt, fs, stack, found_sym, found_dwarf>>
  /\ UNCHANGED otherThanRes

\* The dSYM worlds: the executable's uuid, and up to MaxDsymFiles entries in
\* the dSYM's DWARF directory.
DSYM_DWARF_DIR == <<"/", "a", "/", "p", ".", "d", "S", "Y", "M", "/", "C", "o", "n", "t", "e", "n", "t", "s", "/", "R", "e", "s", "o", "u", "r", "c", "e", "s", "/", "D", "W", "A", "R", "F">>

Uuid(first, last) == [i \in 1..UUID_SIZE |-> IF i = 1 THEN first ELSE IF i = UUID_SIZE THEN last ELSE 7]

EXECUTABLE_UUID == Uuid(1, 1)

DsymKinds ==
  {"match", "lastdiff", "firstdiff", "nouuid", "notmacho", "nodwarf", "addfail",
   "dir", "noperm"}

DsymEntry(k) ==
  LET Dwarf(u) == MachoImage(TRUE, <<LoadCommand("LC_SEGMENT_64", <<>>),
                                     LoadCommand("LC_UUID", u)>>, TRUE, TRUE)
  IN IF k = "dir"
       THEN <<[kind |-> "dir", target |-> <<>>, bytes |-> <<>>, viewok |-> TRUE,
               img |-> NoImage]>>
     ELSE IF k = "noperm"
       THEN <<[kind |-> "noperm", target |-> <<>>, bytes |-> <<>>, viewok |-> TRUE,
               img |-> NoImage]>>
     ELSE RegularFile(<<>>, TRUE,
            IF k = "match" THEN Dwarf(EXECUTABLE_UUID)
            ELSE IF k = "lastdiff" THEN Dwarf(Uuid(1, 2))
            ELSE IF k = "firstdiff" THEN Dwarf(Uuid(2, 1))
            ELSE IF k = "nouuid"
              THEN MachoImage(TRUE, <<LoadCommand("LC_SEGMENT_64", <<>>)>>, TRUE, TRUE)
            ELSE IF k = "notmacho" THEN MachoImage(FALSE, <<>>, FALSE, FALSE)
            ELSE IF k = "nodwarf"
              THEN MachoImage(TRUE, <<LoadCommand("LC_UUID", EXECUTABLE_UUID)>>,
                              FALSE, FALSE)
            ELSE MachoImage(TRUE, <<LoadCommand("LC_UUID", EXECUTABLE_UUID)>>,
                            TRUE, FALSE))

DsymNames == <<<<"0">>, <<"1">>, <<"2">>>>

MachoInit ==
  \E dir_ok \in BOOLEAN, n \in 0..MaxDsymFiles :
    \E kinds \in [1..n -> DsymKinds] :
      /\ dir_ok \/ n = 0
      /\ fmt = "macho"
      /\ fs = [p \in {DSYM_DWARF_DIR \o <<"/">> \o DsymNames[i] : i \in 1..n}
                     \cup (IF dir_ok THEN {DSYM_DWARF_DIR} ELSE {}) |->
                 IF p = DSYM_DWARF_DIR THEN DsymEntry("dir")
                 ELSE DsymEntry(kinds[CHOOSE i \in 1..n :
                                  p = DSYM_DWARF_DIR \o <<"/">> \o DsymNames[i]])]
      /\ macho = [pc |-> "opendir", dirname |-> DSYM_DWARF_DIR,
                  dir |-> [i \in 1..n |-> DsymNames[i]], i |-> 0,
                  uuid |-> EXECUTABLE_UUID]
      /\ stack = <<>>
      /\ fdtab = <<[path |-> PRIMARY, closes |-> 0, eio |-> FALSE]>>
      /\ errs = <<>>
      /\ attempts = <<>>
      /\ result = <<>>
      /\ found_sym = FALSE
      /\ found_dwarf = FALSE
      /\ registered = <<>>

ResInit == ElfCoffInit \/ MachoInit

ResNext ==
  \/ ElfAddHeader
  \/ ElfAddBuildid
  \/ ElfAddDebugfileRet
  \/ ElfAddDebuglink
  \/ ElfAddDebugdata
  \/ ElfAddDebugdataRet
  \/ ElfAddAltlink
  \/ ElfAddAltlinkRet
  \/ ElfAddSections
  \/ ElfAddFail
  \/ CoffAddHeader
  \/ CoffAddDebuglink
  \/ CoffAddDebuglinkRet
  \/ CoffAddSections
  \/ CoffAddFail
  \/ MachoOpenDir
  \/ MachoReadDir

(***************************************************************************)
(* CRC-64 (elf.c: elf_crc64).  A uint64_t is the tuple of its four 16-bit  *)
(* limbs, most significant first.                                          *)
(***************************************************************************)

\* static const uint64_t crc64_table[256] of elf_crc64.
elf_crc64_table ==
  <<
     <<0, 0, 0, 0>>, <<45870, 19646, 935, 24431>>, <<62596, 13911, 43072, 41051>>,
     <<18346, 31465, 44007, 65332>>, <<31696, 50052, 65423, 24115>>, <<51454, 36666, 64552, 348>>,
     <<36692, 62931, 22479, 65128>>, <<15482, 47469, 21608, 41223>>, <<63393, 34569, 65310, 48230>>,
     <<17551, 52151, 64697, 58121>>, <<805, 45406, 22366, 7229>>, <<45067, 64992, 21753, 17234>>,
     <<35953, 17549, 145, 57941>>, <<16223, 2099, 822, 48442>>, <<30965, 29402, 43217, 16910>>,
     <<52187, 15972, 43894, 7521>>, <<32155, 41272, 20787, 26185>>, <<52917, 60806, 21140, 14630>>,
     <<35103, 38767, 63859, 50706>>, <<14897, 56273, 64212, 39293>>, <<1611, 25276, 44732, 14458>>,
     <<46437, 11778, 44315, 26389>>, <<62159, 21739, 1788, 38945>>, <<16865, 6229, 1371, 51022>>,
     <<35386, 9777, 44589, 55855>>, <<14612, 27279, 44426, 34112>>, <<32446, 4198, 1645, 31348>>,
     <<52624, 23768, 1482, 9499>>, <<61930, 58805, 20898, 33820>>, <<17092, 43275, 20997, 56179>>,
     <<1390, 54242, 63970, 9287>>, <<46656, 40796, 64069, 31528>>, <<64311, 17008, 41574, 52370>>,
     <<18457, 3790, 41409, 37885>>, <<4019, 29735, 2598, 27849>>, <<48285, 14489, 2433, 13222>>,
     <<32999, 33268, 24041, 37537>>, <<13257, 52554, 24142, 52686>>, <<29795, 47011, 62889, 13050>>,
     <<51021, 64285, 62990, 28053>>, <<3222, 50553, 23928, 28916>>, <<49080, 35271, 24287, 12187>>,
     <<63506, 62254, 62776, 53423>>, <<19260, 49040, 63135, 36800>>, <<30534, 1789, 41719, 11975>>,
     <<50280, 19011, 41296, 29096>>, <<33730, 12458, 2743, 36508>>, <<12524, 31764, 2320, 53747>>,
     <<34476, 58184, 62293, 43739>>, <<13698, 45046, 61682, 62900>>, <<29224, 54559, 23317, 2688>>,
     <<49414, 39329, 22706, 21999>>, <<64892, 8396, 3290, 62696>>, <<20050, 27762, 3965, 43911>>,
     <<2552, 5787, 42138, 21683>>, <<47830, 23077, 42813, 3036>>, <<28941, 25665, 3147, 5821>>,
     <<49699, 10495, 4076, 18898>>, <<34185, 21014, 41995, 46822>>, <<13991, 7848, 42924, 59785>>,
     <<2781, 42949, 62404, 18574>>, <<47603, 60283, 61539, 6113>>, <<65113, 37266, 23428, 59605>>,
     <<19831, 56620, 22563, 47034>>, <<25782, 11210, 60355, 34721>>, <<55192, 26484, 59492, 55502>>,
     <<36914, 7581, 17283, 10234>>, <<8988, 20771, 16420, 30869>>, <<8038, 59470, 5196, 55698>>,
     <<44104, 42224, 6123, 34557>>, <<60386, 56857, 48140, 31177>>, <<22732, 37543, 49067, 9894>>,
     <<37655, 44227, 5341, 15303>>, <<8249, 57469, 6010, 25768>>, <<26515, 39572, 48285, 39836>>,
     <<54461, 54826, 48954, 50419>>, <<59591, 28487, 60242, 26100>>, <<23529, 9209, 59637, 15003>>,
     <<7235, 22800, 17170, 50607>>, <<44909, 5550, 16565, 39616>>, <<6445, 35570, 47856, 57832>>,
     <<43523, 50764, 47447, 48775>>, <<60841, 48293, 4784, 16819>>, <<24199, 61467, 4375, 7900>>,
     <<25341, 18806, 17791, 49115>>, <<53715, 1480, 18136, 57524>>, <<38521, 32545, 60735, 8064>>,
     <<9559, 13215, 61080, 16623>>, <<61068, 3579, 17902, 23950>>, <<23970, 16709, 17993, 737>>,
     <<6664, 15276, 60846, 64981>>, <<43302, 30482, 60937, 41658>>, <<38236, 52863, 47713, 957>>,
     <<9842, 33473, 47558, 23762>>, <<25048, 63528, 4641, 41958>>, <<54006, 46230, 4486, 64649>>,
     <<40833, 27066, 18853, 19251>>, <<11439, 9476, 18946, 5212>>, <<27397, 24557, 57829, 60264>>,
     <<55339, 4947, 57922, 46087>>, <<58449, 43582, 46634, 5376>>, <<22399, 59008, 46477, 19055>>,
     <<4309, 40041, 7786, 46427>>, <<41979, 53463, 7629, 59956>>, <<26656, 61107, 46779, 63317>>,
     <<56078, 41485, 46364, 43066>>, <<40100, 55524, 7931, 22286>>, <<12170, 37978, 7516, 2145>>,
     <<5104, 11575, 18740, 43366>>, <<41182, 24969, 19091, 62985>>, <<59252, 7008, 57716, 2365>>,
     <<21594, 22494, 58067, 22098>>, <<57882, 51330, 6294, 11642>>, <<20788, 33852, 6961, 29205>>,
     <<5790, 65237, 45270, 36129>>, <<42416, 45675, 45937, 53838>>, <<39370, 2822, 59161, 29513>>,
     <<10980, 18360, 58558, 11302>>, <<27982, 15697, 20313, 54034>>, <<56928, 29167, 19710, 35965>>,
     <<5563, 20363, 59272, 37148>>, <<42645, 821, 58415, 52851>>, <<57663, 31196, 20424, 12615>>,
     <<21009, 13666, 19567, 28200>>, <<28267, 35855, 6151, 53039>>, <<56645, 49329, 7072, 36928>>,
     <<39663, 47704, 45127, 28532>>, <<10689, 63206, 46048, 12315>>, <<51564, 22421, 55175, 3906>>,
     <<31298, 6955, 54304, 20525>>, <<15848, 25026, 32711, 44825>>, <<36550, 11644, 31840, 61558>>,
     <<45756, 37905, 10248, 20849>>, <<402, 55471, 11183, 3614>>, <<17976, 41542, 32840, 61738>>,
     <<62742, 61176, 33775, 44613>>, <<16077, 53404, 10393, 45860>>, <<36323, 39970, 11070, 60491>>,
     <<51785, 59083, 32985, 4991>>, <<31079, 43637, 33662, 19472>>, <<17693, 4888, 55062, 60695>>,
     <<63027, 24486, 54449, 45688>>, <<45465, 9551, 32598, 19788>>, <<695, 27121, 31985, 4643>>,
     <<46327, 63149, 34484, 26891>>, <<2009, 47635, 34067, 13924>>, <<16499, 49402, 12020, 51536>>,
     <<62301, 35908, 11603, 38463>>, <<53031, 13609, 31035, 14136>>, <<31753, 31127, 31388, 26711>>,
     <<15267, 894, 53627, 38755>>, <<34957, 20416, 53980, 51212>>, <<17238, 29092, 31146, 54637>>,
     <<61560, 15642, 31245, 35330>>, <<47058, 18419, 53738, 30006>>, <<1276, 2893, 53837, 10841>>,
     <<14470, 45600, 34341, 35678>>, <<35752, 65182, 34178, 54321>>, <<52226, 33911, 11877, 11013>>,
     <<32556, 51401, 11714, 29802>>, <<12891, 5605, 30177, 50128>>, <<33141, 22875, 30278, 40127>>,
     <<50911, 9138, 56737, 25483>>, <<30193, 28428, 56838, 15588>>, <<18827, 54881, 35438, 40419>>,
     <<64165, 39647, 35273, 49804>>, <<48399, 57398, 8750, 15800>>, <<3617, 44168, 8585, 25303>>,
     <<50682, 37612, 35583, 32694>>, <<30420, 56914, 35160, 8409>>, <<12670, 42171, 8895, 57325>>,
     <<33360, 59397, 8472, 32898>>, <<48682, 20840, 30064, 8581>>, <<3332, 7638, 30423, 32490>>,
     <<19118, 26431, 56624, 33246>>, <<63872, 11137, 56983, 57009>>, <<20416, 46301, 9426, 42393>>,
     <<64750, 63587, 10101, 64246>>, <<47940, 33418, 35986, 1474>>, <<2154, 52788, 36661, 23213>>,
     <<13328, 30553, 56157, 64426>>, <<34622, 15335, 55546, 42181>>, <<49300, 16654, 29469, 23537>>,
     <<29626, 3504, 28858, 1182>>, <<47201, 13268, 56268, 6655>>, <<2895, 32618, 55403, 18064>>,
     <<19685, 1411, 29580, 47524>>, <<65483, 18749, 28715, 59083>>, <<50097, 61520, 9283, 18380>>,
     <<28831, 48366, 10212, 6307>>, <<14133, 50695, 35843, 59287>>, <<33819, 35513, 36772, 47352>>,
     <<44506, 31839, 15428, 35043>>, <<7924, 12513, 16355, 55180>>, <<22878, 18952, 37892, 10424>>,
     <<60016, 1718, 38819, 30679>>, <<54794, 49115, 50123, 54992>>, <<25892, 62309, 49260, 35263>>,
     <<8846, 35212, 27531, 30347>>, <<37280, 50482, 26668, 10724>>, <<23163, 64342, 50010, 13445>>,
     <<59733, 47080, 49405, 27626>>, <<44799, 52481, 27418, 38110>>, <<7633, 33215, 26813, 52145>>,
     <<8619, 14546, 15573, 27318>>, <<37509, 29804, 16242, 13785>>, <<54575, 3717, 38037, 51949>>,
     <<26113, 16955, 38706, 38274>>, <<53313, 56679, 28023, 61098>>, <<25455, 37337, 28368, 45509>>,
     <<9413, 60208, 50487, 20209>>, <<38891, 42894, 50832, 4510>>, <<43921, 7907, 37624, 45209>>,
     <<6335, 21085, 37215, 61430>>, <<24341, 10420, 15032, 4290>>, <<60475, 25610, 14623, 20397>>,
     <<10208, 23150, 37481, 21196>>, <<38094, 5840, 37326, 3491>>, <<54116, 27705, 14889, 62103>>,
     <<24650, 8327, 14734, 44536>>, <<23600, 39402, 28134, 3327>>, <<61214, 54612, 28225, 21392>>,
     <<43188, 44989, 50598, 44196>>, <<7066, 58115, 50689, 62411>>, <<22253, 15919, 40482, 17521>>,
     <<58819, 29329, 40325, 6942>>, <<41577, 2168, 13922, 58410>>, <<4423, 17606, 13765, 47941>>,
     <<11581, 64939, 25005, 6722>>, <<40467, 45333, 25098, 17709>>, <<55737, 52220, 51693, 47641>>,
     <<27287, 34626, 51786, 58742>>, <<41292, 47398, 24892, 63511>>, <<4706, 62872, 25243, 42872>>,
     <<21960, 36721, 51580, 22604>>, <<59110, 50127, 51931, 1827>>, <<55964, 31394, 40627, 42532>>,
     <<27058, 13852, 40212, 63819>>, <<11800, 19701, 14067, 1663>>, <<40246, 75, 13652, 22800>>,
     <<11126, 40727, 53009, 8760>>, <<39000, 54185, 52406, 32087>>, <<57330, 43328, 26449, 33379>>,
     <<27868, 58878, 25846, 56588>>, <<20646, 23699, 12446, 31755>>, <<58248, 4141, 13113, 9060>>,
     <<42018, 27332, 39134, 56400>>, <<5900, 9850, 39801, 33599>>, <<56535, 6174, 12303, 40542>>,
     <<28665, 21664, 13224, 49457>>, <<10323, 11849, 38991, 15877>>, <<39805, 25335, 39912, 24938>>,
     <<42759, 56218, 53120, 49261>>, <<5161, 38692, 52263, 40706>>, <<21379, 60877, 26560, 24630>>,
     <<57517, 41331, 25703, 16217>>
  >>

\* The values of a uint64_t.
UInt64 == (0..65535) \X (0..65535) \X (0..65535) \X (0..65535)

\* ~x
Not64(x) == <<65535 - x[1], 65535 - x[2], 65535 - x[3], 65535 - x[4]>>

\* x ^ y
Xor64(x, y) ==
  <<BitXor(x[1], y[1]), BitXor(x[2], y[2]), BitXor(x[3], y[3]), BitXor(x[4], y[4])>>

\* x >> 8
Shr8_64(x) ==
  <<x[1] \div 256,
    (x[1] % 256) * 256 + x[2] \div 256,
    (x[2] % 256) * 256 + x[3] \div 256,
    (x[3] % 256) * 256 + x[4] \div 256>>

Zero64 == <<0, 0, 0, 0>>

\* for (end = buf + len; buf < end; ++ buf)
\*   crc = crc64_table[(crc ^ *buf) & 0xff] ^ (crc >> 8);
RECURSIVE crc64_loop(_, _, _)
crc64_loop(crc, buf, i) ==
  IF i > Len(buf) THEN crc
  ELSE LET next == Xor64(elf_crc64_table[BitXor(crc[4] % 256, buf[i]) + 1],
                         Shr8_64(crc))
       IN CASE next \in UInt64 -> crc64_loop(next, buf, i + 1)

elf_crc64(crc, buf) == Not64(crc64_loop(Not64(crc), buf, 1))

\* The uint64_t s->crc handed to elf_crc32 (truncated to uint32_t) and the
\* uint32_t it returns stored back (zero-extended).
Low32(x) == <<x[3], x[4]>>

Widen32(x) == <<0, 0, x[1], x[2]>>

\* (crc >> pos) & 0xFF, pos a multiple of 8 below 64
CrcByte(crc, pos) ==
  LET limb == crc[4 - pos \div 16]
  IN IF pos % 16 = 0 THEN limb % 256 ELSE limb \div 256

\* The eight bytes of a xz_vli_type in memory (little-endian host); the
\* values the model's streams produce stay below 2^31.
Bytes64(n) ==
  <<n % 256, (n \div 256) % 256, (n \div 65536) % 256, n \div 16777216,
    0, 0, 0, 0>>

(***************************************************************************)
(* The XZ container decoder (elf.c: xz_dec_run and what it calls).  A      *)
(* struct xz_buf is [in, in_pos, in_size, out, out_pos, out_size]: in is   *)
(* the caller's input, of which the decoder may read the first in_size     *)
(* bytes, and out holds the out_pos bytes written so far.  The LZMA range  *)
(* decoder and the BCJ filters are outside the model: the model's streams  *)
(* carry their payload in uncompressed LZMA2 chunks, a step that would     *)
(* enter either returns OUTSIDE_MODEL, and XzInsideModel states that no    *)
(* behaviour takes such a step.  The dictionary's bytes, which only an     *)
(* LZMA match reads, are left out with it.                                 *)
(***************************************************************************)
XZ_STREAM_HEADER_SIZE == 12

XZ_HEADER_MAGIC == <<253, 55, 122, 88, 90, 0>>

XZ_HEADER_MAGIC_SIZE == 6

XZ_FOOTER_MAGIC == <<89, 90>>

XZ_CHECK_CRC32 == 1

XZ_CHECK_CRC64 == 4

\* (xz_vli_type)-1: larger than every size
VLI_UNKNOWN == -1

VLI_BYTES_MAX == 9

ELF_LZMA_UNCOMPRESSOR_GROW_FACTOR == 2

min_t(a, b) == IF a < b THEN a ELSE b

\* b->in[i]
In(b, i) == b.in[i + 1]

\* a > b on xz_vli_type, where b may be VLI_UNKNOWN
VliGreater(a, b) == b # VLI_UNKNOWN /\ a > b

\* A small number as a uint32_t.
Pair32(n) == <<n \div 65536, n % 65536>>

xz_fill_temp(s, b) ==
  LET copy_size == min_t(b.in_size - b.in_pos, s.temp.size - s.temp.pos)
      buf == SubSeq(s.temp.buf, 1, s.temp.pos)
             \o SubSeq(b.in, b.in_pos + 1, b.in_pos + copy_size)
             \o SubSeq(s.temp.buf, s.temp.pos + copy_size + 1, Len(s.temp.buf))
      pos == s.temp.pos + copy_size
  IN [s |-> [s EXCEPT !.temp.buf = buf,
                      !.temp.pos = IF pos = s.temp.size THEN 0 ELSE pos],
      b |-> [b EXCEPT !.in_pos = @ + copy_size],
      ret |-> IF pos = s.temp.size THEN 1 ELSE 0]

\* The while loop of xz_dec_vli.
RECURSIVE xz_dec_vli_loop(_, _, _, _)
xz_dec_vli_loop(s, in, in_pos, in_size) ==
  IF in_pos >= in_size
    THEN [s |-> s, in_pos |-> in_pos, ret |-> "XZ_OK"]
  ELSE
    LET byte == in[in_pos + 1]
        s1 == [s EXCEPT !.vli = @ + (byte % 128) * 2^s.pos]
    IN IF byte < 128
         THEN IF byte = 0 /\ s.pos # 0
                THEN [s |-> s1, in_pos |-> in_pos + 1, ret |-> "XZ_DATA_ERROR"]
              ELSE [s |-> [s1 EXCEPT !.pos = 0], in_pos |-> in_pos + 1,
                    ret |-> "XZ_STREAM_END"]
       ELSE IF s.pos + 7 = 7 * VLI_BYTES_MAX
         THEN [s |-> [s1 EXCEPT !.pos = @ + 7], in_pos |-> in_pos + 1,
               ret |-> "XZ_DATA_ERROR"]
       ELSE xz_dec_vli_loop([s1 EXCEPT !.pos = @ + 7], in, in_pos + 1, in_size)

xz_dec_vli(s, in, in_pos, in_size) ==
  xz_dec_vli_loop(IF s.pos = 0 THEN [s EXCEPT !.vli = 0] ELSE s,
                  in, in_pos, in_size)

\* The bytes of a struct xz_dec_hash: two xz_vli_type, a uint32_t and the
\* four bytes of padding that xz_dec_reset's memset cleared.
HashBytes(h) ==
  Bytes64(h.unpadded) \o Bytes64(h.uncompressed) \o Bytes32(h.crc32)
    \o <<0, 0, 0, 0>>

xz_index_update(s, b) ==
  LET in_used == b.in_pos - s.in_start
  IN [s EXCEPT !.index.size = @ + in_used,
               !.crc = Widen32(elf_crc32(Low32(s.crc),
                                         SubSeq(b.in, s.in_start + 1, b.in_pos)))]

RECURSIVE xz_dec_index(_, _)
xz_dec_index(s, b) ==
  LET v == xz_dec_vli(s, b.in, b.in_pos, b.in_size)
      b1 == [b EXCEPT !.in_pos = v.in_pos]
      while(s2) ==
        IF s2.index.count > 0 THEN xz_dec_index(s2, b1)
        ELSE [s |-> s2, b |-> b1, ret |-> "XZ_STREAM_END"]
  IN IF v.ret # "XZ_STREAM_END"
       THEN [s |-> xz_index_update(v.s, b1), b |-> b1, ret |-> v.ret]
     ELSE IF v.s.index.sequence = "SEQ_INDEX_COUNT"
       THEN LET s1 == [v.s EXCEPT !.index.count = v.s.vli]
            IN IF s1.index.count # s1.block.count
                 THEN [s |-> s1, b |-> b1, ret |-> "XZ_DATA_ERROR"]
               ELSE while([s1 EXCEPT !.index.sequence = "SEQ_INDEX_UNPADDED"])
     ELSE IF v.s.index.sequence = "SEQ_INDEX_UNPADDED"
       THEN while([v.s EXCEPT !.index.hash.unpadded = @ + v.s.vli,
                              !.index.sequence = "SEQ_INDEX_UNCOMPRESSED"])
     ELSE
       LET h1 == [v.s.index.hash EXCEPT !.uncompressed = @ + v.s.vli]
           h2 == [h1 EXCEPT !.crc32 = elf_crc32(h1.crc32, HashBytes(h1))]
       IN while([v.s EXCEPT !.index.hash = h2,
                            !.index.count = @ - 1,
                            !.index.sequence = "SEQ_INDEX_UNPADDED"])

RECURSIVE xz_cxz_rc_validate(_, _, _)
xz_cxz_rc_validate(s, b, bits) ==
  IF b.in_pos = b.in_size
    THEN [s |-> s, b |-> b, ret |-> "XZ_OK"]
  ELSE
    LET b1 == [b EXCEPT !.in_pos = @ + 1]
        s1 == [s EXCEPT !.pos = @ + 8]
    IN IF CrcByte(s.crc, s.pos) # In(b, b.in_pos)
         THEN [s |-> s, b |-> b1, ret |-> "XZ_DATA_ERROR"]
       ELSE IF s1.pos < bits
         THEN xz_cxz_rc_validate(s1, b1, bits)
       ELSE [s |-> [s1 EXCEPT !.crc = Zero64, !.pos = 0], b |-> b1,
             ret |-> "XZ_STREAM_END"]

xz_dec_stream_header(s) ==
  IF SubSeq(s.temp.buf, 1, XZ_HEADER_MAGIC_SIZE) # XZ_HEADER_MAGIC
    THEN [s |-> s, ret |-> "XZ_FORMAT_ERROR"]
  ELSE IF elf_crc32(Zero32, SubSeq(s.temp.buf, XZ_HEADER_MAGIC_SIZE + 1,
                                   XZ_HEADER_MAGIC_SIZE + 2))
          # get_le32(s.temp.buf, XZ_HEADER_MAGIC_SIZE + 2 + 1)
    THEN [s |-> s, ret |-> "XZ_DATA_ERROR"]
  ELSE IF s.temp.buf[XZ_HEADER_MAGIC_SIZE + 1] # 0
    THEN [s |-> s, ret |-> "XZ_OPTIONS_ERROR"]
  ELSE
    LET s1 == [s EXCEPT !.check_type = s.temp.buf[XZ_HEADER_MAGIC_SIZE + 1 + 1]]
    IN IF s1.check_type # XZ_CHECK_CRC32 /\ s1.check_type # XZ_CHECK_CRC64
         THEN [s |-> s1, ret |-> "XZ_OPTIONS_ERROR"]
       ELSE [s |-> s1, ret |-> "XZ_OK"]

\* xz_dec_stream_footer that never compares the Backward Size.
xz_dec_stream_footer_nosize(s) ==
  IF SubSeq(s.temp.buf, 11, 12) # XZ_FOOTER_MAGIC THEN "XZ_DATA_ERROR"
  ELSE IF elf_crc32(Zero32, SubSeq(s.temp.buf, 5, 10)) # get_le32(s.temp.buf, 1)
    THEN "XZ_DATA_ERROR"
  ELSE IF s.temp.buf[9] # 0 \/ s.temp.buf[10] # s.check_type
    THEN "XZ_DATA_ERROR"
  ELSE "XZ_STREAM_END"

xz_dec_stream_footer(s) ==
  IF SubSeq(s.temp.buf, 11, 12) # XZ_FOOTER_MAGIC THEN "XZ_DATA_ERROR"
  ELSE IF elf_crc32(Zero32, SubSeq(s.temp.buf, 5, 10)) # get_le32(s.temp.buf, 1)
    THEN "XZ_DATA_ERROR"
  ELSE IF Pair32(s.index.size \div 4) # get_le32(s.temp.buf, 5)
    THEN "XZ_DATA_ERROR"
  ELSE IF s.temp.buf[9] # 0 \/ s.temp.buf[10] # s.check_type
    THEN "XZ_DATA_ERROR"
  ELSE "XZ_STREAM_END"

(***************************************************************************)
(* The LZMA2 filter: the dictionary, the range decoder and the LZMA        *)
(* decoder.  L is the struct xz_dec_lzma2: its rc, dict, lzma2 (whose      *)
(* fields sit in L itself), lzma and temp.  The probabilities of           *)
(* struct lzma_dec are the function L.lzma.probs from <<array, row, index>>*)
(* to the probability; xz_lzma_reset sets them all to                      *)
(* LZMA_RC_BIT_MODEL_TOTAL / 2, so the function holds the probabilities    *)
(* written since and every other one is that value.                        *)
(***************************************************************************)
LZMA_RC_SHIFT_BITS == 8

LZMA_RC_TOP_BITS == 24

LZMA_RC_BIT_MODEL_TOTAL_BITS == 11

LZMA_RC_BIT_MODEL_TOTAL == 2048

LZMA_RC_MOVE_BITS == 5

LZMA_LIT_STATES == 7

LZMA_MATCH_LEN_MIN == 2

LZMA_LEN_LOW_SYMBOLS == 8

LZMA_LEN_MID_SYMBOLS == 8

LZMA_LEN_HIGH_SYMBOLS == 256

LZMA_DIST_STATES == 4

LZMA_DIST_SLOTS == 64

LZMA_DIST_MODEL_START == 4

LZMA_DIST_MODEL_END == 14

LZMA_ALIGN_BITS == 4

LZMA_RC_INIT_BYTES == 5

LZMA_IN_REQUIRED == 21

\* enum lzma_state
STATE_LIT_LIT == 0

STATE_SHORTREP_LIT_LIT == 3

STATE_LIT_MATCH == 7

STATE_LIT_LONGREP == 8

STATE_LIT_SHORTREP == 9

STATE_NONLIT_MATCH == 10

STATE_NONLIT_REP == 11

\* uint32_t arithmetic on pairs <<high 16 bits, low 16 bits>>
Less32(x, y) == x[1] < y[1] \/ (x[1] = y[1] /\ x[2] < y[2])

Sub32(x, y) ==
  <<(x[1] - y[1] - (IF x[2] < y[2] THEN 1 ELSE 0) + 65536) % 65536,
    (x[2] - y[2] + 65536) % 65536>>

Add32(x, y) ==
  <<(x[1] + y[1] + (x[2] + y[2]) \div 65536) % 65536, (x[2] + y[2]) % 65536>>

\* (x << 8) + byte
Shl8Add(x, byte) ==
  <<(x[1] % 256) * 256 + x[2] \div 256, (x[2] % 256) * 256 + byte>>

\* x >> 1 on a 32-bit word
Shr1(x) == <<x[1] \div 2, (x[1] % 2) * 32768 + x[2] \div 2>>

\* (x >> 11) * prob, for prob < 2^11: the product is below 2^32
Shr11Mul(x, prob) ==
  LET lo == ((x[1] % 2048) * 32 + x[2] \div 2048) * prob
  IN <<(x[1] \div 2048) * prob + lo \div 65536, lo % 65536>>

lzma_state_literal(state) ==
  IF state <= STATE_SHORTREP_LIT_LIT THEN STATE_LIT_LIT
  ELSE IF state <= STATE_LIT_SHORTREP THEN state - 3
  ELSE state - 6

lzma_state_match(state) ==
  IF state < LZMA_LIT_STATES THEN STATE_LIT_MATCH ELSE STATE_NONLIT_MATCH

lzma_state_long_rep(state) ==
  IF state < LZMA_LIT_STATES THEN STATE_LIT_LONGREP ELSE STATE_NONLIT_REP

lzma_state_short_rep(state) ==
  IF state < LZMA_LIT_STATES THEN STATE_LIT_SHORTREP ELSE STATE_NONLIT_REP

lzma_state_is_literal(state) == state < LZMA_LIT_STATES

lzma_get_dist_state(len) ==
  IF len < LZMA_DIST_STATES + LZMA_MATCH_LEN_MIN THEN len - LZMA_MATCH_LEN_MIN
  ELSE LZMA_DIST_STATES - 1

xz_dict_reset(dict) ==
  [dict EXCEPT !.start = 0, !.pos = 0, !.limit = 0, !.full = 0]

xz_dict_limit(dict, out_max) ==
  [dict EXCEPT !.limit = IF dict.size - dict.pos <= out_max THEN dict.size
                         ELSE dict.pos + out_max]

xz_dict_has_space(dict) == dict.pos < dict.limit

\* dict->buf with bytes stored from position pos on: the buffer holds
\* what was stored in it so far, and is as long as that.
DictStore(buf, pos, bytes) ==
  SubSeq(buf, 1, pos) \o bytes \o SubSeq(buf, pos + Len(bytes) + 1, Len(buf))

xz_dict_get(dict, dcode) ==
  LET offset == dict.pos - dcode - 1
                + (IF dcode >= dict.pos THEN dict.size ELSE 0)
  IN IF dict.full > 0 THEN dict.buf[offset + 1] ELSE 0

xz_dict_put(dict, byte) ==
  [dict EXCEPT !.buf = DictStore(dict.buf, dict.pos, <<byte>>),
               !.pos = @ + 1,
               !.full = IF @ < dict.pos + 1 THEN dict.pos + 1 ELSE @]

\* The do/while loop of xz_dict_repeat stores left bytes, the k-th of them
\* (from 0) read at back + k, wrapped at dict->size: that is a byte the
\* buffer held before the loop while k <= dist, and the byte the loop
\* stored dist + 1 places earlier after that.
DictRepeated(dict, left, dcode) ==
  [k \in 1..left |->
     dict.buf[((dict.pos + ((k - 1) % (dcode + 1)) - dcode - 1 + dict.size)
               % dict.size) + 1]] \o <<>>

\* Returns the dictionary, *len and the return value.
xz_dict_repeat(dict, len, dcode) ==
  LET left == min_t(dict.limit - dict.pos, len)
      pos == dict.pos + left
  IN IF dcode >= dict.full \/ dcode >= dict.size
       THEN [dict |-> dict, len |-> len, ret |-> 0]
     ELSE [dict |-> [dict EXCEPT
                       !.buf = DictStore(dict.buf, dict.pos,
                                         DictRepeated(dict, left, dcode)),
                       !.pos = pos,
                       !.full = IF @ < pos THEN pos ELSE @],
           len |-> len - left, ret |-> 1]

\* Returns the dictionary, the buffer and *left.
RECURSIVE xz_dict_uncompressed(_, _, _)
xz_dict_uncompressed(dict, b, left) ==
  IF ~(left > 0 /\ b.in_pos < b.in_size /\ b.out_pos < b.out_size)
    THEN [dict |-> dict, b |-> b, left |-> left]
  ELSE
    LET copy_size ==
          min_t(min_t(min_t(b.in_size - b.in_pos, b.out_size - b.out_pos),
                      dict.size - dict.pos),
                left)
        pos == dict.pos + copy_size
        wrapped == IF pos = dict.size THEN 0 ELSE pos
        bytes == SubSeq(b.in, b.in_pos + 1, b.in_pos + copy_size)
    IN xz_dict_uncompressed(
         [dict EXCEPT !.buf = DictStore(dict.buf, dict.pos, bytes),
                      !.pos = wrapped,
                      !.full = IF @ < pos THEN pos ELSE @,
                      !.start = wrapped],
         [b EXCEPT !.out = SubSeq(b.out, 1, b.out_pos) \o bytes,
                   !.out_pos = @ + copy_size,
                   !.in_pos = @ + copy_size],
         left - copy_size)

\* Returns the dictionary, the buffer and the number of bytes copied.
xz_dict_flush(dict, b) ==
  LET copy_size == dict.pos - dict.start
      pos == IF dict.pos = dict.size THEN 0 ELSE dict.pos
  IN [dict |-> [dict EXCEPT !.pos = pos, !.start = pos],
      b |-> [b EXCEPT !.out = SubSeq(b.out, 1, b.out_pos)
                              \o SubSeq(dict.buf, dict.start + 1,
                                        dict.start + copy_size),
                      !.out_pos = @ + copy_size],
      copy_size |-> copy_size]

xz_rc_reset(rc) ==
  [rc EXCEPT !.range = <<65535, 65535>>, !.code = Zero32,
             !.init_bytes_left = LZMA_RC_INIT_BYTES]

\* Returns the range decoder, the buffer and the return value.
RECURSIVE xz_rc_read_init(_, _)
xz_rc_read_init(rc, b) ==
  IF ~(rc.init_bytes_left > 0) THEN [rc |-> rc, b |-> b, ret |-> 1]
  ELSE IF b.in_pos = b.in_size THEN [rc |-> rc, b |-> b, ret |-> 0]
  ELSE xz_rc_read_init(
         [rc EXCEPT !.code = Shl8Add(rc.code, In(b, b.in_pos)),
                    !.init_bytes_left = @ - 1],
         [b EXCEPT !.in_pos = @ + 1])

xz_rc_limit_exceeded(rc) == rc.in_pos > rc.in_limit

xz_rc_is_finished(rc) == rc.code = Zero32

\* rc->range < LZMA_RC_TOP_VALUE is range[1] < 2^(24 - 16)
xz_rc_normalize(rc) ==
  IF rc.range[1] < 2^(LZMA_RC_TOP_BITS - 16)
    THEN [rc EXCEPT !.range = Shl8Add(rc.range, 0),
                    !.code = Shl8Add(rc.code, rc.in[rc.in_pos + 1]),
                    !.in_pos = @ + 1]
  ELSE rc

\* the probability *prob, prob being <<array, row, index>>
LzmaProb(L, prob) ==
  IF prob \in DOMAIN L.lzma.probs THEN L.lzma.probs[prob]
  ELSE LZMA_RC_BIT_MODEL_TOTAL \div 2

\* xz_rc_bit once the range decoder is normalized and the bound computed
RcBitBound(L, prob, rc, p, bound) ==
  IF Less32(rc.code, bound)
    THEN [L |-> [L EXCEPT
                   !.rc = [rc EXCEPT !.range = bound],
                   !.lzma.probs =
                      (prob :> (p + (LZMA_RC_BIT_MODEL_TOTAL - p)
                                      \div 2^LZMA_RC_MOVE_BITS)) @@ @],
          bit |-> 0]
  ELSE [L |-> [L EXCEPT
                 !.rc = [rc EXCEPT !.range = Sub32(rc.range, bound),
                                   !.code = Sub32(rc.code, bound)],
                 !.lzma.probs =
                    (prob :> (p - p \div 2^LZMA_RC_MOVE_BITS)) @@ @],
        bit |-> 1]

RcBitNormalized(L, prob, rc, p) ==
  RcBitBound(L, prob, rc, p, Shr11Mul(rc.range, p))

\* Returns the decoder and the bit.
xz_rc_bit(L, prob) ==
  RcBitNormalized(L, prob, xz_rc_normalize(L.rc), LzmaProb(L, prob))

\* &probs[i]
ProbAt(probs, i) == <<probs[1], probs[2], probs[3] + i>>

\* r is what xz_rc_bit returned for probs[symbol].
RECURSIVE BittreeBit(_, _, _, _)
BittreeBit(r, probs, limit, symbol) ==
  IF 2 * symbol + r.bit < limit
    THEN BittreeBit(xz_rc_bit(r.L, ProbAt(probs, 2 * symbol + r.bit)),
                    probs, limit, 2 * symbol + r.bit)
  ELSE [L |-> r.L, symbol |-> 2 * symbol + r.bit]

\* Returns the decoder and the symbol.
xz_rc_bittree(L, probs, limit) ==
  BittreeBit(xz_rc_bit(L, ProbAt(probs, 1)), probs, limit, 1)

\* r is what xz_rc_bit returned for probs[symbol], in turn i of the loop.
RECURSIVE BittreeReverseBit(_, _, _, _, _, _)
BittreeReverseBit(r, probs, dest, limit, symbol, i) ==
  IF i + 1 < limit
    THEN BittreeReverseBit(
           xz_rc_bit(r.L, ProbAt(probs, 2 * symbol + r.bit)),
           probs, dest + r.bit * 2^i, limit, 2 * symbol + r.bit, i + 1)
  ELSE [L |-> r.L, dest |-> dest + r.bit * 2^i]

\* Returns the decoder and *dest.
xz_rc_bittree_reverse(L, probs, dest, limit) ==
  BittreeReverseBit(xz_rc_bit(L, ProbAt(probs, 1)), probs, dest, limit, 1, 0)

\* One turn of the loop of xz_rc_direct on the normalized decoder: mask is
\* all ones when the subtraction took code below zero (bit 31 set).
RcDirectBit(rc, range, code) ==
  IF code[1] >= 32768
    THEN [rc |-> [rc EXCEPT !.range = range, !.code = Add32(code, range)],
          bit |-> 0]
  ELSE [rc |-> [rc EXCEPT !.range = range, !.code = code], bit |-> 1]

RcDirectHalved(rc, range) == RcDirectBit(rc, range, Sub32(rc.code, range))

RcDirectNormalized(rc) == RcDirectHalved(rc, Shr1(rc.range))

\* Returns the range decoder and *dest.
RECURSIVE RcDirectTurn(_, _, _)
RcDirectTurn(r, dest, limit) ==
  IF limit - 1 > 0
    THEN RcDirectTurn(RcDirectNormalized(xz_rc_normalize(r.rc)),
                      2 * dest + r.bit, limit - 1)
  ELSE [rc |-> r.rc, dest |-> 2 * dest + r.bit]

xz_rc_direct(rc, dest, limit) ==
  RcDirectTurn(RcDirectNormalized(xz_rc_normalize(rc)), dest, limit)

xz_lzma_literal_probs(L) ==
  LET prev_byte == xz_dict_get(L.dict, 0)
      low == prev_byte \div 2^(8 - L.lzma.lc)
      high == BitAnd(L.dict.pos, L.lzma.literal_pos_mask) * 2^L.lzma.lc
  IN <<"literal", low + high, 0>>

\* The loop of xz_lzma_literal for a literal after a match: r is what
\* xz_rc_bit returned for probs[offset + match_bit + symbol].
RECURSIVE LiteralMatchedBit(_, _, _, _, _, _)
LiteralMatchedBit(r, probs, symbol, match_byte, match_bit, offset) ==
  LET symbol1 == 2 * symbol + r.bit
      offset1 == IF r.bit = 1 THEN BitAnd(offset, match_bit)
                 ELSE offset - BitAnd(offset, match_bit)
      match_bit1 == BitAnd(match_byte, offset1)
  IN IF symbol1 < 256
       THEN LiteralMatchedBit(
              xz_rc_bit(r.L, ProbAt(probs, offset1 + match_bit1 + symbol1)),
              probs, symbol1, 2 * match_byte, match_bit1, offset1)
     ELSE [L |-> r.L, symbol |-> symbol1]

LiteralMatched(L, probs, match_byte) ==
  LiteralMatchedBit(
    xz_rc_bit(L, ProbAt(probs, 256 + BitAnd(match_byte, 256) + 1)),
    probs, 1, 2 * match_byte, BitAnd(match_byte, 256), 256)

\* xz_lzma_literal once the symbol is decoded
LiteralDecoded(r) ==
  [r.L EXCEPT !.dict = xz_dict_put(r.L.dict, r.symbol % 256),
              !.lzma.state = lzma_state_literal(r.L.lzma.state)]

xz_lzma_literal(L) ==
  LiteralDecoded(
    IF lzma_state_is_literal(L.lzma.state)
      THEN xz_rc_bittree(L, xz_lzma_literal_probs(L), 256)
    ELSE LiteralMatched(L, xz_lzma_literal_probs(L),
                        2 * xz_dict_get(L.dict, L.lzma.rep0)))

\* xz_lzma_len once the bittree is decoded
LenDecoded(r, least, limit) ==
  [r.L EXCEPT !.lzma.len = least + r.symbol - limit]

\* xz_lzma_len after choice was decoded as 1: r is what xz_rc_bit returned
\* for choice2.
LenChoice2(r, l, pos_state) ==
  IF r.bit = 0
    THEN LenDecoded(xz_rc_bittree(r.L, <<l \o ".mid", pos_state, 0>>,
                                  LZMA_LEN_MID_SYMBOLS),
                    LZMA_MATCH_LEN_MIN + LZMA_LEN_LOW_SYMBOLS,
                    LZMA_LEN_MID_SYMBOLS)
  ELSE LenDecoded(xz_rc_bittree(r.L, <<l \o ".high", 0, 0>>,
                                LZMA_LEN_HIGH_SYMBOLS),
                  LZMA_MATCH_LEN_MIN + LZMA_LEN_LOW_SYMBOLS
                    + LZMA_LEN_MID_SYMBOLS,
                  LZMA_LEN_HIGH_SYMBOLS)

\* r is what xz_rc_bit returned for choice.
LenChoice(r, l, pos_state) ==
  IF r.bit = 0
    THEN LenDecoded(xz_rc_bittree(r.L, <<l \o ".low", pos_state, 0>>,
                                  LZMA_LEN_LOW_SYMBOLS),
                    LZMA_MATCH_LEN_MIN, LZMA_LEN_LOW_SYMBOLS)
  ELSE LenChoice2(xz_rc_bit(r.L, <<l \o ".choice2", 0, 0>>), l, pos_state)

\* l is "match_len_dec" or "rep_len_dec".
xz_lzma_len(L, l, pos_state) ==
  LenChoice(xz_rc_bit(L, <<l \o ".choice", 0, 0>>), l, pos_state)

\* A distance of 2^30 or more is beyond every dictionary of the model:
\* it is kept as 2^30.
LzmaDist(d) == IF d >= 2^30 THEN 2^30 ELSE d

MatchDistReversed(r) == [r.L EXCEPT !.lzma.rep0 = LzmaDist(r.dest)]

\* xz_lzma_match after xz_rc_direct returned r on the decoder L
MatchDistDirect(L, r) ==
  MatchDistReversed(
    xz_rc_bittree_reverse([L EXCEPT !.rc = r.rc], <<"dist_align", 0, 0>>,
                          LzmaDist(r.dest) * 2^LZMA_ALIGN_BITS,
                          LZMA_ALIGN_BITS))

\* xz_lzma_match once the distance slot is decoded
MatchDistSlot(L, dist_slot) ==
  LET limit == (dist_slot \div 2) - 1
      rep0 == 2 + (dist_slot % 2)
  IN IF dist_slot < LZMA_DIST_MODEL_START
       THEN [L EXCEPT !.lzma.rep0 = dist_slot]
     ELSE IF dist_slot < LZMA_DIST_MODEL_END
       THEN MatchDistReversed(
              xz_rc_bittree_reverse(
                L, <<"dist_special", 0, rep0 * 2^limit - dist_slot - 1>>,
                rep0 * 2^limit, limit))
     ELSE MatchDistDirect(L, xz_rc_direct(L.rc, rep0,
                                          limit - LZMA_ALIGN_BITS))

MatchSlotDecoded(r) == MatchDistSlot(r.L, r.symbol - LZMA_DIST_SLOTS)

\* xz_lzma_match once the length is decoded
MatchLenDecoded(L) ==
  MatchSlotDecoded(
    xz_rc_bittree(L, <<"dist_slot", lzma_get_dist_state(L.lzma.len), 0>>,
                  LZMA_DIST_SLOTS))

xz_lzma_match(L, pos_state) ==
  MatchLenDecoded(
    xz_lzma_len([L EXCEPT !.lzma.state = lzma_state_match(@),
                          !.lzma.rep3 = L.lzma.rep2,
                          !.lzma.rep2 = L.lzma.rep1,
                          !.lzma.rep1 = L.lzma.rep0],
                "match_len_dec", pos_state))

\* xz_lzma_rep_match from lzma_state_long_rep on
RepMatchLong(L, pos_state) ==
  xz_lzma_len([L EXCEPT !.lzma.state = lzma_state_long_rep(@)],
              "rep_len_dec", pos_state)

\* r is what xz_rc_bit returned for is_rep2[state].
RepMatchRep2(r, pos_state) ==
  RepMatchLong(
    IF r.bit = 0
      THEN [r.L EXCEPT !.lzma.rep2 = r.L.lzma.rep1,
                       !.lzma.rep1 = r.L.lzma.rep0,
                       !.lzma.rep0 = r.L.lzma.rep2]
    ELSE [r.L EXCEPT !.lzma.rep3 = r.L.lzma.rep2,
                     !.lzma.rep2 = r.L.lzma.rep1,
                     !.lzma.rep1 = r.L.lzma.rep0,
                     !.lzma.rep0 = r.L.lzma.rep3],
    pos_state)

\* r is what xz_rc_bit returned for is_rep1[state].
RepMatchRep1(r, pos_state) ==
  IF r.bit = 0
    THEN RepMatchLong([r.L EXCEPT !.lzma.rep1 = r.L.lzma.rep0,
                                  !.lzma.rep0 = r.L.lzma.rep1],
                      pos_state)
  ELSE RepMatchRep2(xz_rc_bit(r.L, <<"is_rep2", r.L.lzma.state, 0>>),
                    pos_state)

\* r is what xz_rc_bit returned for is_rep0_long[state][pos_state].
RepMatchRep0Long(r, pos_state) ==
  IF r.bit = 0
    THEN [r.L EXCEPT !.lzma.state = lzma_state_short_rep(@), !.lzma.len = 1]
  ELSE RepMatchLong(r.L, pos_state)

\* r is what xz_rc_bit returned for is_rep0[state].
RepMatchRep0(r, pos_state) ==
  IF r.bit = 0
    THEN RepMatchRep0Long(
           xz_rc_bit(r.L, <<"is_rep0_long", r.L.lzma.state, pos_state>>),
           pos_state)
  ELSE RepMatchRep1(xz_rc_bit(r.L, <<"is_rep1", r.L.lzma.state, 0>>),
                    pos_state)

xz_lzma_rep_match(L, pos_state) ==
  RepMatchRep0(xz_rc_bit(L, <<"is_rep0", L.lzma.state, 0>>), pos_state)

\* if (!xz_dict_repeat(...)) return 0; of the loop of xz_lzma_main: r is
\* what xz_dict_repeat returned.
LzmaRepeated(L, r) ==
  IF r.ret = 0 THEN [L |-> L, ret |-> 0, done |-> TRUE]
  ELSE [L |-> [L EXCEPT !.dict = r.dict, !.lzma.len = r.len],
        ret |-> 1, done |-> FALSE]

LzmaMatched(L) ==
  LzmaRepeated(L, xz_dict_repeat(L.dict, L.lzma.len, L.lzma.rep0))

\* r is what xz_rc_bit returned for is_rep[state].
LzmaIsRep(r, pos_state) ==
  LzmaMatched(IF r.bit = 1 THEN xz_lzma_rep_match(r.L, pos_state)
              ELSE xz_lzma_match(r.L, pos_state))

\* r is what xz_rc_bit returned for is_match[state][pos_state].
LzmaIsMatch(r, pos_state) ==
  IF r.bit = 0
    THEN [L |-> xz_lzma_literal(r.L), ret |-> 1, done |-> FALSE]
  ELSE LzmaIsRep(xz_rc_bit(r.L, <<"is_rep", r.L.lzma.state, 0>>), pos_state)

LzmaSymbol(L, pos_state) ==
  LzmaIsMatch(xz_rc_bit(L, <<"is_match", L.lzma.state, pos_state>>),
              pos_state)

\* One turn of the while loop of xz_lzma_main, and what follows the loop
\* when its condition fails.  m is [L, ret, done]: the decoder, and once
\* done what xz_lzma_main returns.
LzmaTurn(m) ==
  IF m.done THEN m
  ELSE IF xz_dict_has_space(m.L.dict) /\ ~xz_rc_limit_exceeded(m.L.rc)
    THEN LzmaSymbol(m.L, BitAnd(m.L.dict.pos, m.L.lzma.pos_mask))
  ELSE [L |-> [m.L EXCEPT !.rc = xz_rc_normalize(@)],
        ret |-> 1, done |-> TRUE]

\* n turns of the loop
RECURSIVE LzmaTurns(_, _)
LzmaTurnsOn(m, n) == IF m.done THEN m ELSE LzmaTurns(m, n)

LzmaTurns(m, n) ==
  IF n <= 1 THEN LzmaTurn(m)
  ELSE LzmaTurnsOn(LzmaTurns(m, n \div 2), n - (n \div 2))

\* xz_lzma_main from the while loop on: every turn of the loop stores at
\* least one byte in the dictionary or returns, so that the loop ends
\* within limit - pos + 1 turns.
LzmaLoop(L) ==
  LzmaTurns([L |-> L, ret |-> 1, done |-> FALSE],
            L.dict.limit - L.dict.pos + 1)

\* the pending repeat of xz_lzma_main: r is what xz_dict_repeat returned
LzmaPending(L, r) ==
  IF r.ret = 0 THEN L ELSE [L EXCEPT !.dict = r.dict, !.lzma.len = r.len]

\* xz_lzma_main without the repeat left pending by the previous call: a
\* match cut short by a full output buffer is never completed.
xz_lzma_main_nopending(L) == LzmaLoop(L)

\* Returns the decoder and the return value.
xz_lzma_main(L) ==
  LzmaLoop(IF xz_dict_has_space(L.dict) /\ L.lzma.len > 0
             THEN LzmaPending(L, xz_dict_repeat(L.dict, L.lzma.len,
                                                L.lzma.rep0))
           ELSE L)

xz_lzma_reset(L) ==
  [L EXCEPT !.lzma.state = STATE_LIT_LIT,
            !.lzma.rep0 = 0, !.lzma.rep1 = 0, !.lzma.rep2 = 0,
            !.lzma.rep3 = 0,
            !.lzma.probs = <<>>,
            !.rc = xz_rc_reset(@)]

\* Returns the decoder and the return value.
xz_lzma_props(L, props) ==
  LET pb == props \div (9 * 5)
      lp == (props % (9 * 5)) \div 9
      lc == props % 9
      L1 == [L EXCEPT !.lzma.pos_mask = 2^pb - 1,
                      !.lzma.literal_pos_mask = lp,
                      !.lzma.lc = lc]
  IN IF props > (4 * 5 + 4) * 9 + 8 THEN [L |-> L, ret |-> 0]
     ELSE IF lc + lp > 4 THEN [L |-> L1, ret |-> 0]
     ELSE [L |-> xz_lzma_reset([L1 EXCEPT !.lzma.literal_pos_mask = 2^lp - 1]),
           ret |-> 1]

\* s->temp.buf with bytes stored from offset at on
TempStore(buf, at, bytes) ==
  SubSeq(buf, 1, at) \o bytes \o SubSeq(buf, at + Len(bytes) + 1, Len(buf))

\* The end of xz_lzma2_lzma: what is left of a short input goes to temp.
Lzma2Rest(L, b) ==
  LET in_avail == min_t(b.in_size - b.in_pos, L.compressed)
  IN IF b.in_size - b.in_pos < LZMA_IN_REQUIRED
       THEN [L |-> [L EXCEPT
                      !.temp.buf = TempStore(@, 0, SubSeq(b.in, b.in_pos + 1,
                                                          b.in_pos + in_avail)),
                      !.temp.size = in_avail],
             b |-> [b EXCEPT !.in_pos = @ + in_avail],
             ret |-> 1]
     ELSE [L |-> L, b |-> b, ret |-> 1]

\* Decoding from the caller's buffer: m is what xz_lzma_main returned.
Lzma2DirectRun(m, b) ==
  LET in_avail == m.L.rc.in_pos - b.in_pos
  IN IF m.ret = 0 THEN [L |-> m.L, b |-> b, ret |-> 0]
     ELSE IF in_avail > m.L.compressed THEN [L |-> m.L, b |-> b, ret |-> 0]
     ELSE Lzma2Rest([m.L EXCEPT !.compressed = @ - in_avail],
                    [b EXCEPT !.in_pos = m.L.rc.in_pos])

\* xz_lzma2_lzma from the second in_avail = b->in_size - b->in_pos on
Lzma2Direct(L, b) ==
  LET in_avail == b.in_size - b.in_pos
  IN IF in_avail >= LZMA_IN_REQUIRED
       THEN Lzma2DirectRun(
              xz_lzma_main(
                [L EXCEPT
                   !.rc.in = b.in,
                   !.rc.in_pos = b.in_pos,
                   !.rc.in_limit =
                      IF in_avail >= L.compressed + LZMA_IN_REQUIRED
                        THEN b.in_pos + L.compressed
                      ELSE b.in_size - LZMA_IN_REQUIRED]),
              b)
     ELSE Lzma2Rest(L, b)

\* Decoding from temp: m is what xz_lzma_main returned, L the decoder it
\* was called on and tmp the number of bytes taken from the input.
Lzma2TempRun(m, L, b, tmp) ==
  LET in_pos == m.L.rc.in_pos
      L1 == [m.L EXCEPT !.compressed = @ - in_pos]
  IN IF m.ret = 0 \/ in_pos > L.temp.size + tmp
       THEN [L |-> m.L, b |-> b, ret |-> 0]
     ELSE IF in_pos < L.temp.size
       THEN [L |-> [L1 EXCEPT
                      !.temp.size = @ - in_pos,
                      !.temp.buf =
                         TempStore(@, 0, SubSeq(@, in_pos + 1, L.temp.size))],
             b |-> b, ret |-> 1]
     ELSE Lzma2Direct([L1 EXCEPT !.temp.size = 0],
                      [b EXCEPT !.in_pos = @ + (in_pos - L.temp.size)])

\* The first part of xz_lzma2_lzma: tmp bytes of the input are added to
\* temp, and temp is decoded if it holds the rest of the chunk or
\* LZMA_IN_REQUIRED bytes.
Lzma2Temp(L, b, tmp) ==
  LET filled == TempStore(L.temp.buf, L.temp.size,
                          SubSeq(b.in, b.in_pos + 1, b.in_pos + tmp))
      held == L.temp.size + tmp
      zeroed == SubSeq(filled, 1, held)
                  \o [k \in 1..(Len(filled) - held) |-> 0]
  IN IF held = L.compressed
       THEN Lzma2TempRun(
              xz_lzma_main([L EXCEPT !.temp.buf = zeroed,
                                     !.rc.in_limit = held,
                                     !.rc.in = zeroed,
                                     !.rc.in_pos = 0]),
              L, b, tmp)
     ELSE IF held < LZMA_IN_REQUIRED
       THEN [L |-> [L EXCEPT !.temp.buf = filled, !.temp.size = held],
             b |-> [b EXCEPT !.in_pos = @ + tmp],
             ret |-> 1]
     ELSE Lzma2TempRun(
            xz_lzma_main([L EXCEPT !.temp.buf = filled,
                                   !.rc.in_limit = held - LZMA_IN_REQUIRED,
                                   !.rc.in = filled,
                                   !.rc.in_pos = 0]),
            L, b, tmp)

\* Returns the decoder, the buffer and the return value.
xz_lzma2_lzma(L, b) ==
  IF L.temp.size > 0 \/ L.compressed = 0
    THEN Lzma2Temp(L, b,
                   min_t(min_t(2 * LZMA_IN_REQUIRED - L.temp.size,
                               L.compressed - L.temp.size),
                         b.in_size - b.in_pos))
  ELSE Lzma2Direct(L, b)

\* L is the struct xz_dec_lzma2.  Returns the decoder, the buffer and the
\* return value.
RECURSIVE xz_dec_lzma2_run(_, _)

\* SEQ_LZMA_RUN once the dictionary is flushed: f is what xz_dict_flush
\* returned, on the decoder L.
Lzma2Flushed(L, f) ==
  LET L1 == [L EXCEPT !.dict = f.dict, !.uncompressed = @ - f.copy_size]
  IN IF L1.uncompressed = 0 THEN
       IF L1.compressed > 0 \/ L1.lzma.len > 0 \/ ~xz_rc_is_finished(L1.rc)
         THEN [L |-> L1, b |-> f.b, ret |-> "XZ_DATA_ERROR"]
       ELSE xz_dec_lzma2_run([L1 EXCEPT !.rc = xz_rc_reset(@),
                                        !.sequence = "SEQ_CONTROL"],
                             f.b)
     ELSE IF f.b.out_pos = f.b.out_size
             \/ (f.b.in_pos = f.b.in_size /\ L1.temp.size < L1.compressed)
       THEN [L |-> L1, b |-> f.b, ret |-> "XZ_OK"]
     ELSE xz_dec_lzma2_run(L1, f.b)

\* SEQ_LZMA_RUN after xz_lzma2_lzma returned r
Lzma2Decoded(r) ==
  IF r.ret = 0 THEN [L |-> r.L, b |-> r.b, ret |-> "XZ_DATA_ERROR"]
  ELSE Lzma2Flushed(r.L, xz_dict_flush(r.L.dict, r.b))

\* case SEQ_LZMA_RUN
Lzma2Run(L, b) ==
  Lzma2Decoded(
    xz_lzma2_lzma(
      [L EXCEPT !.dict = xz_dict_limit(@, min_t(b.out_size - b.out_pos,
                                                 L.uncompressed))],
      b))

\* SEQ_LZMA_PREPARE after xz_rc_read_init returned r
Lzma2Prepared(L, r) ==
  IF r.ret = 0 THEN [L |-> [L EXCEPT !.rc = r.rc], b |-> r.b, ret |-> "XZ_OK"]
  ELSE Lzma2Run([L EXCEPT !.rc = r.rc,
                          !.compressed = @ - LZMA_RC_INIT_BYTES,
                          !.sequence = "SEQ_LZMA_RUN"],
                r.b)

\* case SEQ_LZMA_PREPARE, which falls through to SEQ_LZMA_RUN
Lzma2Prepare(L, b) ==
  IF L.compressed < LZMA_RC_INIT_BYTES
    THEN [L |-> L, b |-> b, ret |-> "XZ_DATA_ERROR"]
  ELSE Lzma2Prepared(L, xz_rc_read_init(L.rc, b))

\* case SEQ_PROPERTIES, which falls through to SEQ_LZMA_PREPARE: r is what
\* xz_lzma_props returned.
Lzma2Properties(r, b) ==
  IF r.ret = 0 THEN [L |-> r.L, b |-> b, ret |-> "XZ_DATA_ERROR"]
  ELSE Lzma2Prepare([r.L EXCEPT !.sequence = "SEQ_LZMA_PREPARE"], b)

\* xz_dec_lzma2_run that takes an LZMA chunk without new properties
\* whether or not properties are needed.
xz_dec_lzma2_run_oldprops(L, b) ==
  LET b1 == [b EXCEPT !.in_pos = @ + 1]
      tmp == In(b, b.in_pos)
  IN
  IF ~(b.in_pos < b.in_size \/ L.sequence = "SEQ_LZMA_RUN")
    THEN [L |-> L, b |-> b, ret |-> "XZ_OK"]
  ELSE IF L.sequence = "SEQ_CONTROL" THEN
    LET L1 == IF tmp >= 224 \/ tmp = 1
                THEN [L EXCEPT !.need_props = 1,
                               !.need_xz_dict_reset = 0,
                               !.dict = xz_dict_reset(L.dict)]
              ELSE L
        L2 == [L1 EXCEPT !.uncompressed = (tmp % 32) * 65536,
                         !.sequence = "SEQ_UNCOMPRESSED_1"]
    IN IF tmp = 0
         THEN [L |-> L, b |-> b1, ret |-> "XZ_STREAM_END"]
       ELSE IF ~(tmp >= 224 \/ tmp = 1) /\ L.need_xz_dict_reset = 1
         THEN [L |-> L, b |-> b1, ret |-> "XZ_DATA_ERROR"]
       ELSE IF tmp >= 128 THEN
         IF tmp >= 192
           THEN xz_dec_lzma2_run([L2 EXCEPT !.need_props = 0,
                                            !.next_sequence = "SEQ_PROPERTIES"],
                                 b1)
         ELSE xz_dec_lzma2_run(
                IF tmp >= 160
                  THEN xz_lzma_reset(
                         [L2 EXCEPT !.next_sequence = "SEQ_LZMA_PREPARE"])
                ELSE [L2 EXCEPT !.next_sequence = "SEQ_LZMA_PREPARE"],
                b1)
       ELSE IF tmp > 2
         THEN [L |-> L1, b |-> b1, ret |-> "XZ_DATA_ERROR"]
       ELSE xz_dec_lzma2_run([L1 EXCEPT !.sequence = "SEQ_COMPRESSED_0",
                                        !.next_sequence = "SEQ_COPY"],
                             b1)
  ELSE IF L.sequence = "SEQ_UNCOMPRESSED_1" THEN
    xz_dec_lzma2_run([L EXCEPT !.uncompressed = @ + tmp * 256,
                               !.sequence = "SEQ_UNCOMPRESSED_2"], b1)
  ELSE IF L.sequence = "SEQ_UNCOMPRESSED_2" THEN
    xz_dec_lzma2_run([L EXCEPT !.uncompressed = @ + tmp + 1,
                               !.sequence = "SEQ_COMPRESSED_0"], b1)
  ELSE IF L.sequence = "SEQ_COMPRESSED_0" THEN
    xz_dec_lzma2_run([L EXCEPT !.compressed = tmp * 256,
                               !.sequence = "SEQ_COMPRESSED_1"], b1)
  ELSE IF L.sequence = "SEQ_COMPRESSED_1" THEN
    xz_dec_lzma2_run([L EXCEPT !.compressed = @ + tmp + 1,
                               !.sequence = L.next_sequence], b1)
  ELSE IF L.sequence = "SEQ_COPY" THEN
    LET c == xz_dict_uncompressed(L.dict, b, L.compressed)
        L1 == [L EXCEPT !.dict = c.dict, !.compressed = c.left]
    IN IF c.left > 0
         THEN [L |-> L1, b |-> c.b, ret |-> "XZ_OK"]
       ELSE xz_dec_lzma2_run([L1 EXCEPT !.sequence = "SEQ_CONTROL"], c.b)
  ELSE IF L.sequence = "SEQ_PROPERTIES"
    THEN Lzma2Properties(xz_lzma_props(L, tmp), b1)
  ELSE IF L.sequence = "SEQ_LZMA_PREPARE" THEN Lzma2Prepare(L, b)
  ELSE Lzma2Run(L, b)

xz_dec_lzma2_run(L, b) ==
  LET b1 == [b EXCEPT !.in_pos = @ + 1]
      tmp == In(b, b.in_pos)
  IN
  IF ~(b.in_pos < b.in_size \/ L.sequence = "SEQ_LZMA_RUN")
    THEN [L |-> L, b |-> b, ret |-> "XZ_OK"]
  ELSE IF L.sequence = "SEQ_CONTROL" THEN
    LET L1 == IF tmp >= 224 \/ tmp = 1
                THEN [L EXCEPT !.need_props = 1,
                               !.need_xz_dict_reset = 0,
                               !.dict = xz_dict_reset(L.dict)]
              ELSE L
        L2 == [L1 EXCEPT !.uncompressed = (tmp % 32) * 65536,
                         !.sequence = "SEQ_UNCOMPRESSED_1"]
    IN IF tmp = 0
         THEN [L |-> L, b |-> b1, ret |-> "XZ_STREAM_END"]
       ELSE IF ~(tmp >= 224 \/ tmp = 1) /\ L.need_xz_dict_reset = 1
         THEN [L |-> L, b |-> b1, ret |-> "XZ_DATA_ERROR"]
       ELSE IF tmp >= 128 THEN
         IF tmp >= 192
           THEN xz_dec_lzma2_run([L2 EXCEPT !.need_props = 0,
                                            !.next_sequence = "SEQ_PROPERTIES"],
                                 b1)
         ELSE IF L2.need_props = 1
           THEN [L |-> L2, b |-> b1, ret |-> "XZ_DATA_ERROR"]
         ELSE xz_dec_lzma2_run(
                IF tmp >= 160
                  THEN xz_lzma_reset(
                         [L2 EXCEPT !.next_sequence = "SEQ_LZMA_PREPARE"])
                ELSE [L2 EXCEPT !.next_sequence = "SEQ_LZMA_PREPARE"],
                b1)
       ELSE IF tmp > 2
         THEN [L |-> L1, b |-> b1, ret |-> "XZ_DATA_ERROR"]
       ELSE xz_dec_lzma2_run([L1 EXCEPT !.sequence = "SEQ_COMPRESSED_0",
                                        !.next_sequence = "SEQ_COPY"],
                             b1)
  ELSE IF L.sequence = "SEQ_UNCOMPRESSED_1" THEN
    xz_dec_lzma2_run([L EXCEPT !.uncompressed = @ + tmp * 256,
                               !.sequence = "SEQ_UNCOMPRESSED_2"], b1)
  ELSE IF L.sequence = "SEQ_UNCOMPRESSED_2" THEN
    xz_dec_lzma2_run([L EXCEPT !.uncompressed = @ + tmp + 1,
                               !.sequence = "SEQ_COMPRESSED_0"], b1)
  ELSE IF L.sequence = "SEQ_COMPRESSED_0" THEN
    xz_dec_lzma2_run([L EXCEPT !.compressed = tmp * 256,
                               !.sequence = "SEQ_COMPRESSED_1"], b1)
  ELSE IF L.sequence = "SEQ_COMPRESSED_1" THEN
    xz_dec_lzma2_run([L EXCEPT !.compressed = @ + tmp + 1,
                               !.sequence = L.next_sequence], b1)
  ELSE IF L.sequence = "SEQ_COPY" THEN
    LET c == xz_dict_uncompressed(L.dict, b, L.compressed)
        L1 == [L EXCEPT !.dict = c.dict, !.compressed = c.left]
    IN IF c.left > 0
         THEN [L |-> L1, b |-> c.b, ret |-> "XZ_OK"]
       ELSE xz_dec_lzma2_run([L1 EXCEPT !.sequence = "SEQ_CONTROL"], c.b)
  ELSE IF L.sequence = "SEQ_PROPERTIES"
    THEN Lzma2Properties(xz_lzma_props(L, tmp), b1)
  ELSE IF L.sequence = "SEQ_LZMA_PREPARE" THEN Lzma2Prepare(L, b)
  ELSE Lzma2Run(L, b)

\* xz_dec_lzma2_reset that leaves need_xz_dict_reset as it was.
xz_dec_lzma2_reset_keep(L, props) ==
  LET dict_size == (2 + (props % 2)) * 2^((props \div 2) + 11)
  IN IF props > 39 THEN [L |-> L, ret |-> "XZ_OPTIONS_ERROR"]
     ELSE IF L.dict.allocated < dict_size /\ ~L.dict.alloc_ok
       THEN [L |-> [L EXCEPT !.dict.size = dict_size, !.dict.allocated = 0],
             ret |-> "XZ_MEM_ERROR"]
     ELSE [L |-> [L EXCEPT !.dict.size = dict_size,
                           !.dict.allocated =
                              IF @ < dict_size THEN dict_size ELSE @,
                           !.lzma.len = 0,
                           !.sequence = "SEQ_CONTROL",
                           !.temp.size = 0],
           ret |-> "XZ_OK"]

\* alloc_ok is the outcome backtrace_alloc will have for the dictionary.
xz_dec_lzma2_reset(L, props) ==
  LET dict_size == (2 + (props % 2)) * 2^((props \div 2) + 11)
  IN IF props > 39 THEN [L |-> L, ret |-> "XZ_OPTIONS_ERROR"]
     \* dict.size > dict.size_max cannot hold: size_max is (uint32_t)-1
     ELSE IF L.dict.allocated < dict_size /\ ~L.dict.alloc_ok
       THEN [L |-> [L EXCEPT !.dict.size = dict_size, !.dict.allocated = 0],
             ret |-> "XZ_MEM_ERROR"]
     ELSE [L |-> [L EXCEPT !.dict.size = dict_size,
                           !.dict.allocated =
                              IF @ < dict_size THEN dict_size ELSE @,
                           !.lzma.len = 0,
                           !.sequence = "SEQ_CONTROL",
                           !.need_xz_dict_reset = 1,
                           !.temp.size = 0],
           ret |-> "XZ_OK"]

(***************************************************************************)
(* The BCJ filter for x86.  bcj is the struct xz_dec_bcj; its temp.buf is  *)
(* kept as the temp.size bytes it holds.                                   *)
(***************************************************************************)
BCJ_X86 == 4

xz_bcj_x86_test_msbyte(b) == b = 0 \/ b = 255

mask_to_allowed_status == <<1, 1, 1, 0, 1, 0, 0, 0>>

mask_to_bit_num == <<0, 1, 2, 2, 3, 3, 3, 3>>

\* The while (1) loop of xz_bcj_x86: returns dest.
RECURSIVE X86Dest(_, _, _)
X86Dest(src, at, prev_mask) ==
  LET dest == Sub32(src, at)
      j == mask_to_bit_num[prev_mask + 1] * 8
  IN IF prev_mask = 0 THEN dest
     ELSE IF ~xz_bcj_x86_test_msbyte(Bytes32(dest)[4 - (j \div 8)]) THEN dest
     ELSE X86Dest(Xor32(dest, IF j = 8 THEN <<255, 65535>>
                              ELSE IF j = 16 THEN <<0, 65535>>
                              ELSE <<0, 255>>),
                  at, prev_mask)

\* dest &= 0x01FFFFFF; dest |= (uint32_t)0 - (dest & 0x01000000);
X86Extend(dest) ==
  <<IF (dest[1] % 512) >= 256 THEN 65280 + (dest[1] % 256) ELSE dest[1] % 512,
    dest[2]>>

\* The body of the for loop of xz_bcj_x86 at a byte 0xE8 or 0xE9, from
\* prev_pos = i on.
X86Convert(bcj, x) ==
  IF xz_bcj_x86_test_msbyte(x.buf[x.i + 5])
    THEN [x EXCEPT
            !.prev_pos = x.i,
            !.buf = SubSeq(x.buf, 1, x.i + 1)
                    \o Bytes32(X86Extend(
                         X86Dest(get_le32(x.buf, x.i + 2),
                                 Add32(bcj.pos, Pair32(x.i + 5)),
                                 x.prev_mask)))
                    \o SubSeq(x.buf, x.i + 6, Len(x.buf)),
            !.i = x.i + 4 + 1]
  ELSE [x EXCEPT !.prev_pos = x.i,
                 !.prev_mask = x.prev_mask * 2 + 1,
                 !.i = x.i + 1]

\* The body of the for loop at a byte 0xE8 or 0xE9 when prev_pos <= 3.
X86Near(bcj, x, prev_mask) ==
  IF prev_mask # 0
     /\ (mask_to_allowed_status[prev_mask + 1] = 0
         \/ xz_bcj_x86_test_msbyte(
              x.buf[x.i + 4 - mask_to_bit_num[prev_mask + 1] + 1]))
    THEN [x EXCEPT !.prev_pos = x.i,
                   !.prev_mask = prev_mask * 2 + 1,
                   !.i = x.i + 1]
  ELSE X86Convert(bcj, [x EXCEPT !.prev_mask = prev_mask])

\* One turn of the for loop of xz_bcj_x86.  x is [buf, size, i, prev_pos,
\* prev_mask, done].
X86Turn(bcj, x) ==
  IF x.done THEN x
  ELSE IF ~(x.i < x.size) THEN [x EXCEPT !.done = TRUE]
  ELSE IF BitAnd(x.buf[x.i + 1], 254) # 232 THEN [x EXCEPT !.i = x.i + 1]
  ELSE IF x.i - x.prev_pos > 3
    THEN X86Convert(bcj, [x EXCEPT !.prev_mask = 0])
  ELSE X86Near(bcj, x, BitAnd(x.prev_mask * 2^(x.i - x.prev_pos - 1), 7))

RECURSIVE X86Turns(_, _, _)
X86TurnsOn(bcj, x, n) == IF x.done THEN x ELSE X86Turns(bcj, x, n)

X86Turns(bcj, x, n) ==
  IF n <= 1 THEN X86Turn(bcj, x)
  ELSE X86TurnsOn(bcj, X86Turns(bcj, x, n \div 2), n - (n \div 2))

\* xz_bcj_x86 once the for loop ended
X86Done(bcj, x) ==
  [bcj |-> [bcj EXCEPT
              !.x86_prev_mask =
                 IF x.i - x.prev_pos > 3 THEN 0
                 ELSE x.prev_mask * 2^(x.i - x.prev_pos - 1)],
   buf |-> x.buf, filtered |-> x.i]

\* Returns the filter, the buffer and the number of bytes filtered.  The
\* for loop takes at most size + 1 turns.
xz_bcj_x86(bcj, buf) ==
  IF Len(buf) <= 4 THEN [bcj |-> bcj, buf |-> buf, filtered |-> 0]
  ELSE X86Done(bcj,
               X86Turns(bcj,
                        [buf |-> buf, size |-> Len(buf) - 4, i |-> 0,
                         prev_pos |-> -1, prev_mask |-> bcj.x86_prev_mask,
                         done |-> FALSE],
                        Len(buf) - 4 + 1))

\* xz_bcj_apply after the filter returned f on buf + *pos
BcjApplied(f, buf, pos) ==
  [bcj |-> [f.bcj EXCEPT !.pos = Add32(@, Pair32(f.filtered))],
   buf |-> SubSeq(buf, 1, pos) \o f.buf,
   pos |-> pos + f.filtered]

\* Returns the filter, the buffer's first len bytes and *pos.  The filter
\* is BCJ_X86.
xz_bcj_apply(bcj, buf, pos, len) ==
  BcjApplied(xz_bcj_x86(bcj, SubSeq(buf, pos + 1, len)), buf, pos)

\* Returns the filter and the buffer.
xz_bcj_flush(bcj, b) ==
  LET copy_size == min_t(bcj.temp.filtered, b.out_size - b.out_pos)
  IN [bcj |-> [bcj EXCEPT
                 !.temp.filtered = @ - copy_size,
                 !.temp.size = @ - copy_size,
                 !.temp.buf = SubSeq(@, copy_size + 1, bcj.temp.size)],
      b |-> [b EXCEPT !.out = SubSeq(b.out, 1, b.out_pos)
                              \o SubSeq(bcj.temp.buf, 1, copy_size),
                      !.out_pos = @ + copy_size]]

\* The end of xz_dec_bcj_run: f is what the last xz_bcj_flush returned.
BcjTempFlushed(f, L) ==
  [bcj |-> f.bcj, L |-> L, b |-> f.b,
   ret |-> IF f.bcj.temp.filtered > 0 THEN "XZ_OK" ELSE f.bcj.ret]

\* The last part of xz_dec_bcj_run once the filter was applied on temp: a
\* is what xz_bcj_apply returned.
BcjTempApplied(a, L, b, ret) ==
  BcjTempFlushed(
    xz_bcj_flush([a.bcj EXCEPT !.temp.buf = a.buf,
                               !.temp.filtered =
                                  IF ret = "XZ_STREAM_END" THEN a.bcj.temp.size
                                  ELSE a.pos],
                 b),
    L)

\* The last part of xz_dec_bcj_run: r is what xz_dec_lzma2_run returned
\* with temp as its output buffer, b the caller's buffer before that call.
BcjTempDecoded(bcj, r, b) ==
  LET bcj1 == [bcj EXCEPT !.ret = r.ret,
                          !.temp.size = r.b.out_pos,
                          !.temp.buf = SubSeq(r.b.out, 1, r.b.out_pos)]
      b1 == [b EXCEPT !.in_pos = r.b.in_pos]
  IN IF r.ret # "XZ_OK" /\ r.ret # "XZ_STREAM_END"
       THEN [bcj |-> bcj1, L |-> r.L, b |-> b1, ret |-> r.ret]
     ELSE BcjTempApplied(
            xz_bcj_apply(bcj1, bcj1.temp.buf, bcj1.temp.filtered,
                         bcj1.temp.size),
            r.L, b1, r.ret)

\* xz_dec_bcj_run from if (b->out_pos < b->out_size) on; sizeof temp.buf
\* is 16.
BcjTemp(bcj, L, b) ==
  IF b.out_pos < b.out_size
    THEN BcjTempDecoded(
           bcj,
           xz_dec_lzma2_run(L, [b EXCEPT !.out = bcj.temp.buf,
                                         !.out_pos = bcj.temp.size,
                                         !.out_size = 16]),
           b)
  ELSE [bcj |-> bcj, L |-> L, b |-> b, ret |-> bcj.ret]

\* The middle part of xz_dec_bcj_run once the filter was applied on the
\* output buffer: a is what xz_bcj_apply returned, its pos the new
\* out_start.
BcjOutApplied(a, L, b, ret) ==
  LET left == b.out_pos - a.pos
      bcj1 == [a.bcj EXCEPT !.temp.size = left,
                            !.temp.buf = SubSeq(a.buf, a.pos + 1, b.out_pos)]
      b1 == [b EXCEPT !.out = a.buf, !.out_pos = a.pos]
  IN IF ret = "XZ_STREAM_END"
       THEN [bcj |-> a.bcj, L |-> L, b |-> [b EXCEPT !.out = a.buf],
             ret |-> "XZ_STREAM_END"]
     ELSE IF b1.out_pos + left < b1.out_size
       THEN [bcj |-> bcj1, L |-> L, b |-> b1, ret |-> "XZ_OK"]
     ELSE BcjTemp(bcj1, L, b1)

\* The middle part of xz_dec_bcj_run: r is what xz_dec_lzma2_run returned
\* and out_start the output position before temp was copied out.
BcjOutDecoded(bcj, r, out_start) ==
  IF r.ret # "XZ_STREAM_END" /\ r.ret # "XZ_OK"
    THEN [bcj |-> [bcj EXCEPT !.ret = r.ret], L |-> r.L, b |-> r.b,
          ret |-> r.ret]
  ELSE BcjOutApplied(
         xz_bcj_apply([bcj EXCEPT !.ret = r.ret], r.b.out, out_start,
                      r.b.out_pos),
         r.L, r.b, r.ret)

\* xz_dec_bcj_run from if (s->temp.size < b->out_size - b->out_pos ...) on
BcjOut(bcj, L, b) ==
  IF bcj.temp.size < b.out_size - b.out_pos \/ bcj.temp.size = 0
    THEN BcjOutDecoded(
           bcj,
           xz_dec_lzma2_run(
             L, [b EXCEPT !.out = SubSeq(b.out, 1, b.out_pos)
                                   \o bcj.temp.buf,
                          !.out_pos = @ + bcj.temp.size]),
           b.out_pos)
  ELSE BcjTemp(bcj, L, b)

\* The first part of xz_dec_bcj_run: f is what xz_bcj_flush returned.
BcjFlushed(f, L) ==
  IF f.bcj.temp.filtered > 0
    THEN [bcj |-> f.bcj, L |-> L, b |-> f.b, ret |-> "XZ_OK"]
  ELSE IF f.bcj.ret = "XZ_STREAM_END"
    THEN [bcj |-> f.bcj, L |-> L, b |-> f.b, ret |-> "XZ_STREAM_END"]
  ELSE BcjOut(f.bcj, L, f.b)

\* Returns the filter, the LZMA2 decoder, the buffer and the return value.
xz_dec_bcj_run(bcj, L, b) ==
  IF bcj.temp.filtered > 0 THEN BcjFlushed(xz_bcj_flush(bcj, b), L)
  ELSE BcjOut(bcj, L, b)

\* Returns the filter and the return value.
xz_dec_bcj_reset(bcj, id) ==
  IF id \in {4, 5, 6, 7, 8, 9}
    THEN [bcj |-> [bcj EXCEPT !.type = id, !.ret = "XZ_OK", !.pos = Zero32,
                              !.x86_prev_mask = 0,
                              !.temp = [filtered |-> 0, size |-> 0,
                                        buf |-> <<>>]],
          ret |-> "XZ_OK"]
  ELSE [bcj |-> bcj, ret |-> "XZ_OPTIONS_ERROR"]

\* The Compressed Size or Uncompressed Size field of a Block Header.
BlockHeaderSize(s, present, field) ==
  LET v == xz_dec_vli(s, s.temp.buf, s.temp.pos, s.temp.size)
      s1 == [v.s EXCEPT !.temp.pos = v.in_pos]
  IN IF ~present
       THEN [s |-> [s EXCEPT !.block_header[field] = VLI_UNKNOWN],
             ret |-> "XZ_OK"]
     ELSE IF v.ret # "XZ_STREAM_END"
       THEN [s |-> s1, ret |-> "XZ_DATA_ERROR"]
     ELSE [s |-> [s1 EXCEPT !.block_header[field] = s1.vli], ret |-> "XZ_OK"]

\* while (s->temp.pos < s->temp.size)
\*   if (s->temp.buf[s->temp.pos++] != 0x00) return XZ_OPTIONS_ERROR;
RECURSIVE BlockHeaderPadding(_)
BlockHeaderPadding(s) ==
  IF ~(s.temp.pos < s.temp.size) THEN [s |-> s, ret |-> "XZ_OK"]
  ELSE IF s.temp.buf[s.temp.pos + 1] # 0
    THEN [s |-> [s EXCEPT !.temp.pos = @ + 1], ret |-> "XZ_OPTIONS_ERROR"]
  ELSE BlockHeaderPadding([s EXCEPT !.temp.pos = @ + 1])

\* xz_dec_block_header from "If there are two filters" on.
BlockHeaderFilters(s0) ==
  LET Buf(s, k) == s.temp.buf[s.temp.pos + k + 1]
      Adv(s, k) == [s EXCEPT !.temp.pos = @ + k]
      s1 == [s0 EXCEPT !.bcj_active = s0.temp.buf[2] % 2]
      reset == xz_dec_bcj_reset(s1.bcj, Buf(s1, 0))
      s1r == [s1 EXCEPT !.bcj = reset.bcj]
      bcj == IF s1.bcj_active = 0 THEN [s |-> s1, ret |-> "XZ_OK"]
             ELSE IF s1.temp.size - s1.temp.pos < 2
               THEN [s |-> s1, ret |-> "XZ_OPTIONS_ERROR"]
             ELSE IF reset.ret # "XZ_OK"
               THEN [s |-> Adv(s1, 1), ret |-> reset.ret]
             ELSE IF Buf(s1, 1) # 0
               THEN [s |-> Adv(s1r, 2), ret |-> "XZ_OPTIONS_ERROR"]
             ELSE [s |-> Adv(s1r, 2), ret |-> "XZ_OK"]
      s2 == bcj.s
      lz == xz_dec_lzma2_reset(s2.lzma2, Buf(s2, 2))
      s3 == [Adv(s2, 3) EXCEPT !.lzma2 = lz.L]
      pad == BlockHeaderPadding(s3)
  IN IF bcj.ret # "XZ_OK" THEN bcj
     ELSE IF s2.temp.size - s2.temp.pos < 2
       THEN [s |-> s2, ret |-> "XZ_DATA_ERROR"]
     ELSE IF Buf(s2, 0) # 33
       THEN [s |-> Adv(s2, 1), ret |-> "XZ_OPTIONS_ERROR"]
     ELSE IF Buf(s2, 1) # 1
       THEN [s |-> Adv(s2, 2), ret |-> "XZ_OPTIONS_ERROR"]
     ELSE IF s2.temp.size - (s2.temp.pos + 2) < 1
       THEN [s |-> Adv(s2, 2), ret |-> "XZ_DATA_ERROR"]
     ELSE IF lz.ret # "XZ_OK" THEN [s |-> s3, ret |-> lz.ret]
     ELSE IF pad.ret # "XZ_OK" THEN pad
     ELSE [s |-> [pad.s EXCEPT !.temp.pos = 0,
                               !.block.compressed = 0,
                               !.block.uncompressed = 0],
           ret |-> "XZ_OK"]

xz_dec_block_header(s) ==
  LET s1 == [s EXCEPT !.temp.size = @ - 4]
      s2 == [s1 EXCEPT !.temp.pos = 2]
      c == BlockHeaderSize(s2, (s2.temp.buf[2] % 128) >= 64, "compressed")
      u == BlockHeaderSize(c.s, s2.temp.buf[2] >= 128, "uncompressed")
  IN IF elf_crc32(Zero32, SubSeq(s1.temp.buf, 1, s1.temp.size))
        # get_le32(s1.temp.buf, s1.temp.size + 1)
       THEN [s |-> s1, ret |-> "XZ_DATA_ERROR"]
     ELSE IF BitAnd(s2.temp.buf[2], 62) # 0
       THEN [s |-> s2, ret |-> "XZ_OPTIONS_ERROR"]
     ELSE IF c.ret # "XZ_OK" THEN c
     ELSE IF u.ret # "XZ_OK" THEN u
     ELSE BlockHeaderFilters(u.s)

\* xz_dec_block once the decoding is finished (ret == XZ_STREAM_END).
xz_dec_block_end(s, b, ret) ==
  LET h1 == [s.block.hash EXCEPT
               !.unpadded = @ + s.block_header.size + s.block.compressed
                            + (IF s.check_type = XZ_CHECK_CRC32 THEN 4
                               ELSE IF s.check_type = XZ_CHECK_CRC64 THEN 8
                               ELSE 0),
               !.uncompressed = @ + s.block.uncompressed]
      h2 == [h1 EXCEPT !.crc32 = elf_crc32(h1.crc32, HashBytes(h1))]
  IN IF s.block_header.compressed # VLI_UNKNOWN
        /\ s.block_header.compressed # s.block.compressed
       THEN [s |-> s, b |-> b, ret |-> "XZ_DATA_ERROR"]
     ELSE IF s.block_header.uncompressed # VLI_UNKNOWN
             /\ s.block_header.uncompressed # s.block.uncompressed
       THEN [s |-> s, b |-> b, ret |-> "XZ_DATA_ERROR"]
     ELSE [s |-> [s EXCEPT !.block.hash = h2, !.block.count = @ + 1],
           b |-> b, ret |-> ret]

\* xz_dec_block from the size checks on; produced is the output of this call.
xz_dec_block_check(s, b, ret, produced) ==
  IF VliGreater(s.block.compressed, s.block_header.compressed)
     \/ VliGreater(s.block.uncompressed, s.block_header.uncompressed)
    THEN [s |-> s, b |-> b, ret |-> "XZ_DATA_ERROR"]
  ELSE IF ret # "XZ_STREAM_END"
    THEN [s |-> IF s.check_type = XZ_CHECK_CRC32
                  THEN [s EXCEPT !.crc = Widen32(elf_crc32(Low32(@), produced))]
                ELSE IF s.check_type = XZ_CHECK_CRC64
                  THEN [s EXCEPT !.crc = elf_crc64(@, produced)]
                ELSE s,
          b |-> b, ret |-> ret]
  ELSE xz_dec_block_end(
         IF s.check_type = XZ_CHECK_CRC32
           THEN [s EXCEPT !.crc = Widen32(elf_crc32(Low32(@), produced))]
         ELSE IF s.check_type = XZ_CHECK_CRC64
           THEN [s EXCEPT !.crc = elf_crc64(@, produced)]
         ELSE s,
         b, ret)

\* xz_dec_block after the filter chain ran and returned r.
xz_dec_block_sizes(s, r) ==
  xz_dec_block_check(
    [s EXCEPT !.lzma2 = r.L,
              !.bcj = r.bcj,
              !.block.compressed = @ + (r.b.in_pos - s.in_start),
              !.block.uncompressed = @ + (r.b.out_pos - s.out_start)],
    r.b, r.ret, SubSeq(r.b.out, s.out_start + 1, r.b.out_pos))

\* what xz_dec_lzma2_run returned, and the filter it leaves alone
WithBcj(bcj, r) == [bcj |-> bcj, L |-> r.L, b |-> r.b, ret |-> r.ret]

\* The BCJ filters other than the one for x86 are outside the model.
xz_dec_block(s, b) ==
  xz_dec_block_sizes(
    [s EXCEPT !.in_start = b.in_pos, !.out_start = b.out_pos],
    IF s.bcj_active = 1
      THEN IF s.bcj.type = BCJ_X86 THEN xz_dec_bcj_run(s.bcj, s.lzma2, b)
           ELSE [bcj |-> s.bcj, L |-> s.lzma2, b |-> b,
                 ret |-> "OUTSIDE_MODEL"]
    ELSE WithBcj(s.bcj, xz_dec_lzma2_run(s.lzma2, b)))

\* while (s->block.compressed & 3) of SEQ_BLOCK_PADDING; "" when it ends.
RECURSIVE BlockPadding(_, _)
BlockPadding(s, b) ==
  IF s.block.compressed % 4 = 0 THEN [s |-> s, b |-> b, ret |-> ""]
  ELSE IF b.in_pos = b.in_size THEN [s |-> s, b |-> b, ret |-> "XZ_OK"]
  ELSE IF In(b, b.in_pos) # 0
    THEN [s |-> s, b |-> [b EXCEPT !.in_pos = @ + 1], ret |-> "XZ_DATA_ERROR"]
  ELSE BlockPadding([s EXCEPT !.block.compressed = @ + 1],
                    [b EXCEPT !.in_pos = @ + 1])

\* while ((s->index.size + (b->in_pos - s->in_start)) & 3) of
\* SEQ_INDEX_PADDING; "" when it ends.
RECURSIVE IndexPadding(_, _)
IndexPadding(s, b) ==
  IF (s.index.size + (b.in_pos - s.in_start)) % 4 = 0
    THEN [s |-> s, b |-> b, ret |-> ""]
  ELSE IF b.in_pos = b.in_size
    THEN [s |-> xz_index_update(s, b), b |-> b, ret |-> "XZ_OK"]
  ELSE IF In(b, b.in_pos) # 0
    THEN [s |-> s, b |-> [b EXCEPT !.in_pos = @ + 1], ret |-> "XZ_DATA_ERROR"]
  ELSE IndexPadding(s, [b EXCEPT !.in_pos = @ + 1])

\* SEQ_BLOCK_CHECK: the check field validated against s->crc.
BlockCheck(s, b) ==
  IF s.check_type = XZ_CHECK_CRC32 THEN xz_cxz_rc_validate(s, b, 32)
  ELSE IF s.check_type = XZ_CHECK_CRC64 THEN xz_cxz_rc_validate(s, b, 64)
  ELSE [s |-> s, b |-> b, ret |-> "XZ_STREAM_END"]

\* while (1) switch (s->sequence) of xz_dec_main.  A case that falls through
\* has set s->sequence to the next case first, so falling through is one more
\* turn of the loop.  hdr records what xz_dec_stream_header returned.
RECURSIVE xz_dec_main_loop(_, _, _)

\* if (ret != done) return ret; s->sequence = next; and on to that case.
Sequel(r, done, next, hdr) ==
  IF r.ret # done THEN [s |-> r.s, b |-> r.b, ret |-> r.ret, hdr |-> hdr]
  ELSE xz_dec_main_loop([r.s EXCEPT !.sequence = next], r.b, hdr)

\* what a function of the decoder alone returned, and the buffer
WithBuf(h, b) == [s |-> h.s, b |-> b, ret |-> h.ret]

\* SEQ_STREAM_HEADER once the header is in s->temp: h is what
\* xz_dec_stream_header returned.
StreamHeaderDecoded(h, b) ==
  IF h.ret # "XZ_OK" THEN [s |-> h.s, b |-> b, ret |-> h.ret, hdr |-> <<h.ret>>]
  ELSE xz_dec_main_loop(h.s, b, <<h.ret>>)

\* if (!xz_fill_temp(s, b)) return XZ_OK; of SEQ_STREAM_HEADER,
\* SEQ_BLOCK_HEADER and SEQ_STREAM_FOOTER, and the rest of the case.
Filled(fill, hdr) ==
  IF fill.ret = 0
    THEN [s |-> fill.s, b |-> fill.b, ret |-> "XZ_OK", hdr |-> hdr]
  ELSE IF fill.s.sequence = "SEQ_STREAM_HEADER"
    THEN StreamHeaderDecoded(
           xz_dec_stream_header([fill.s EXCEPT !.sequence = "SEQ_BLOCK_START"]),
           fill.b)
  ELSE IF fill.s.sequence = "SEQ_BLOCK_HEADER"
    THEN Sequel(WithBuf(xz_dec_block_header(fill.s), fill.b),
                "XZ_OK", "SEQ_BLOCK_UNCOMPRESS", hdr)
  ELSE [s |-> fill.s, b |-> fill.b, ret |-> xz_dec_stream_footer(fill.s),
        hdr |-> hdr]

\* SEQ_INDEX_PADDING once the padding is read: the index's size and CRC32
\* are finished and the hashes compared.
IndexPadded(s, b, hdr) ==
  IF s.block.hash # s.index.hash
    THEN [s |-> s, b |-> b, ret |-> "XZ_DATA_ERROR", hdr |-> hdr]
  ELSE xz_dec_main_loop([s EXCEPT !.sequence = "SEQ_INDEX_CRC32"], b, hdr)

\* SEQ_INDEX_PADDING: r is what the padding loop came to.
IndexPaddingRead(r, hdr) ==
  IF r.ret # "" THEN [s |-> r.s, b |-> r.b, ret |-> r.ret, hdr |-> hdr]
  ELSE IndexPadded(xz_index_update(r.s, r.b), r.b, hdr)

\* SEQ_INDEX_CRC32: r is what xz_cxz_rc_validate returned.
IndexCrcRead(r, hdr) ==
  IF r.ret # "XZ_STREAM_END"
    THEN [s |-> r.s, b |-> r.b, ret |-> r.ret, hdr |-> hdr]
  ELSE xz_dec_main_loop([r.s EXCEPT !.temp.size = XZ_STREAM_HEADER_SIZE,
                                    !.sequence = "SEQ_STREAM_FOOTER"],
                        r.b, hdr)

xz_dec_main_loop(s, b, hdr) ==
  IF s.sequence \in {"SEQ_STREAM_HEADER", "SEQ_BLOCK_HEADER", "SEQ_STREAM_FOOTER"}
    THEN Filled(xz_fill_temp(s, b), hdr)
  ELSE IF s.sequence = "SEQ_BLOCK_START" THEN
    IF b.in_pos = b.in_size
      THEN [s |-> s, b |-> b, ret |-> "XZ_OK", hdr |-> hdr]
    ELSE IF In(b, b.in_pos) = 0
      THEN xz_dec_main_loop([s EXCEPT !.in_start = b.in_pos,
                                      !.sequence = "SEQ_INDEX"],
                            [b EXCEPT !.in_pos = @ + 1], hdr)
    ELSE xz_dec_main_loop(
           [s EXCEPT !.block_header.size = (In(b, b.in_pos) + 1) * 4,
                     !.temp.size = (In(b, b.in_pos) + 1) * 4,
                     !.temp.pos = 0,
                     !.sequence = "SEQ_BLOCK_HEADER"],
           b, hdr)
  ELSE IF s.sequence = "SEQ_BLOCK_UNCOMPRESS"
    THEN Sequel(xz_dec_block(s, b), "XZ_STREAM_END", "SEQ_BLOCK_PADDING", hdr)
  ELSE IF s.sequence = "SEQ_BLOCK_PADDING"
    THEN Sequel(BlockPadding(s, b), "", "SEQ_BLOCK_CHECK", hdr)
  ELSE IF s.sequence = "SEQ_BLOCK_CHECK"
    THEN Sequel(BlockCheck(s, b), "XZ_STREAM_END", "SEQ_BLOCK_START", hdr)
  ELSE IF s.sequence = "SEQ_INDEX"
    THEN Sequel(xz_dec_index(s, b), "XZ_STREAM_END", "SEQ_INDEX_PADDING", hdr)
  ELSE IF s.sequence = "SEQ_INDEX_PADDING"
    THEN IndexPaddingRead(IndexPadding(s, b), hdr)
  ELSE \* SEQ_INDEX_CRC32
    IndexCrcRead(xz_cxz_rc_validate(s, b, 32), hdr)

xz_dec_main(s, b) ==
  xz_dec_main_loop([s EXCEPT !.in_start = b.in_pos], b, <<>>)

\* A variant of xz_dec_run_wrap that leaves allow_buf_error set after a
\* call that makes progress.
xz_dec_run_wrap_sticky(b, m) ==
  LET stalled == m.ret = "XZ_OK" /\ b.in_pos = m.b.in_pos
                 /\ b.out_pos = m.b.out_pos
  IN [s |-> [m.s EXCEPT !.allow_buf_error = IF stalled THEN 1 ELSE @],
      b |-> m.b,
      ret |-> IF stalled /\ m.s.allow_buf_error = 1 THEN "XZ_BUF_ERROR"
              ELSE m.ret,
      main |-> m.ret,
      hdr |-> m.hdr]

\* xz_dec_run that never turns XZ_OK into XZ_BUF_ERROR.
xz_dec_run_wrap_nobuf(b, m) ==
  LET stalled == m.ret = "XZ_OK" /\ b.in_pos = m.b.in_pos
                 /\ b.out_pos = m.b.out_pos
  IN [s |-> [m.s EXCEPT !.allow_buf_error = IF stalled THEN 1 ELSE 0],
      b |-> m.b,
      ret |-> m.ret,
      main |-> m.ret,
      hdr |-> m.hdr]

\* xz_dec_run after ret = xz_dec_main(s, b): b is the buffer as it was
\* before the call (in_start, out_start) and m what xz_dec_main returned.
xz_dec_run_wrap(b, m) ==
  LET stalled == m.ret = "XZ_OK" /\ b.in_pos = m.b.in_pos
                 /\ b.out_pos = m.b.out_pos
  IN [s |-> [m.s EXCEPT !.allow_buf_error = IF stalled THEN 1 ELSE 0],
      b |-> m.b,
      ret |-> IF stalled /\ m.s.allow_buf_error = 1 THEN "XZ_BUF_ERROR"
              ELSE m.ret,
      main |-> m.ret,
      hdr |-> m.hdr]

\* Returns the decoder, the buffer and the return value, with what
\* xz_dec_main returned and what xz_dec_stream_header returned in it.
xz_dec_run(s, b) == xz_dec_run_wrap(b, xz_dec_main(s, b))

EmptyHash == [unpadded |-> 0, uncompressed |-> 0, crc32 |-> Zero32]

xz_dec_reset(s) ==
  [s EXCEPT !.sequence = "SEQ_STREAM_HEADER",
            !.allow_buf_error = 0,
            !.pos = 0,
            !.crc = Zero64,
            !.block = [compressed |-> 0, uncompressed |-> 0, count |-> 0,
                       hash |-> EmptyHash],
            !.index = [sequence |-> "SEQ_INDEX_COUNT", size |-> 0, count |-> 0,
                       hash |-> EmptyHash],
            !.temp.pos = 0,
            !.temp.size = XZ_STREAM_HEADER_SIZE]

\* struct xz_dec dec after xz_dec_init: xz_dec_lzma2_create and xz_dec_reset
\* set the dictionary's and the container's fields; the fields they leave
\* unset are written before they are read, and start here at 0.
xz_dec_init(alloc_ok) ==
  xz_dec_reset(
    [sequence |-> "SEQ_STREAM_HEADER", pos |-> 0, vli |-> 0, in_start |-> 0,
     out_start |-> 0, crc |-> Zero64, check_type |-> 0, allow_buf_error |-> 0,
     block_header |-> [compressed |-> 0, uncompressed |-> 0, size |-> 0],
     block |-> <<>>, index |-> <<>>,
     temp |-> [pos |-> 0, size |-> 0, buf |-> <<>>],
     lzma2 |-> [sequence |-> "SEQ_CONTROL", next_sequence |-> "SEQ_CONTROL",
                uncompressed |-> 0, compressed |-> 0,
                need_xz_dict_reset |-> 0, need_props |-> 0,
                dict |-> [buf |-> <<>>, start |-> 0, pos |-> 0, limit |-> 0,
                          full |-> 0, size |-> 0, allocated |-> 0,
                          alloc_ok |-> alloc_ok],
                rc |-> [range |-> Zero32, code |-> Zero32,
                        init_bytes_left |-> 0, in |-> <<>>, in_pos |-> 0,
                        in_limit |-> 0],
                lzma |-> [state |-> STATE_LIT_LIT, rep0 |-> 0, rep1 |-> 0,
                          rep2 |-> 0, rep3 |-> 0, len |-> 0, lc |-> 0,
                          literal_pos_mask |-> 0, pos_mask |-> 0,
                          probs |-> <<>>],
                temp |-> [size |-> 0,
                          buf |-> [k \in 1..(3 * LZMA_IN_REQUIRED) |-> 0]
                                    \o <<>>]],
     bcj |-> [type |-> 0, ret |-> "XZ_OK", pos |-> Zero32,
              x86_prev_mask |-> 0,
              temp |-> [filtered |-> 0, size |-> 0, buf |-> <<>>]],
     bcj_active |-> 0])

(***************************************************************************)
(* The caller of the decoder (elf.c: elf_uncompress_lzma_gnu_debugdata)    *)
(* and the .xz streams it is given.  The caller hands the decoder the      *)
(* whole section at once; the model also lets the input arrive in pieces,  *)
(* as the decoder's interface allows.                                      *)
(***************************************************************************)
\* bytes padded with zeros to a multiple of four
Pad4(bytes) == bytes \o [i \in 1..((4 - (Len(bytes) % 4)) % 4) |-> 0]

\* The eight bytes of a CRC-64, least significant first.
CrcBytes64(x) == [i \in 1..8 |-> CrcByte(x, 8 * (i - 1))]

XzStreamHeader(flag, check) ==
  XZ_HEADER_MAGIC \o <<flag, check>>
    \o Bytes32(elf_crc32(Zero32, <<flag, check>>))

\* A Block Header of 12 bytes: no size fields, one filter (LZMA2, 4 KiB).
XzBlockHeader ==
  LET h == <<2, 0, 33, 1, 0, 0, 0, 0>>
  IN h \o Bytes32(elf_crc32(Zero32, h))

\* The payload as one uncompressed LZMA2 chunk with a dictionary reset,
\* then the end marker.
XzChunks(payload) ==
  IF payload = <<>> THEN <<0>>
  ELSE <<1, 0, Len(payload) - 1>> \o payload \o <<0>>

XzCheck(check, payload) ==
  IF check = XZ_CHECK_CRC32 THEN Bytes32(elf_crc32(Zero32, payload))
  ELSE IF check = XZ_CHECK_CRC64 THEN CrcBytes64(elf_crc64(Zero64, payload))
  ELSE <<>>

XzBlock(check, payload) ==
  XzBlockHeader \o Pad4(XzChunks(payload)) \o XzCheck(check, payload)

\* The Index of a stream of n blocks (n <= 1) holding the payload.
XzIndex(check, n, payload) ==
  LET unpadded == Len(XzBlockHeader) + Len(XzChunks(payload))
                  + Len(XzCheck(check, payload))
      body == Pad4(<<0, n>> \o (IF n = 0 THEN <<>>
                                ELSE <<unpadded, Len(payload)>>))
  IN body \o Bytes32(elf_crc32(Zero32, body))

XzStreamFooter(check, index_size) ==
  LET f == Bytes32(Pair32(index_size \div 4 - 1)) \o <<0, check>>
  IN Bytes32(elf_crc32(Zero32, f)) \o f \o XZ_FOOTER_MAGIC

\* A well-formed .xz stream of n blocks (n <= 1).
XzStream(check, n, payload) ==
  XzStreamHeader(0, check)
    \o (IF n = 0 THEN <<>> ELSE XzBlock(check, payload))
    \o XzIndex(check, n, payload)
    \o XzStreamFooter(check, Len(XzIndex(check, n, payload)))

\* stream with the byte at offset i (from 0) replaced by v
Corrupt(stream, i, v) == [stream EXCEPT ![i + 1] = v]

PAYLOAD == <<7>>

\* The streams the decoder is run on: the empty input; streams without
\* blocks for four check types; streams of one block; and streams of one
\* block damaged in the magic, the header CRC, the stream flags, the block
\* header, the first control byte (0x02 and 0x80, both before any
\* dictionary reset), the payload, the index and the footer; and streams of
\* one block whose footer, its CRC-32 right, names another size of the index
\* or another check than the stream header.
XzInputs ==
  LET good == XzStream(XZ_CHECK_CRC32, 1, PAYLOAD)
      index_size == Len(XzIndex(XZ_CHECK_CRC32, 1, PAYLOAD))
  IN {<<>>}
       \cup {SubSeq(good, 1, Len(good) - XZ_STREAM_HEADER_SIZE)
               \o XzStreamFooter(f[1], f[2]) :
                 f \in {<<XZ_CHECK_CRC32, index_size + 4>>,
                        <<XZ_CHECK_CRC64, index_size>>}}
       \cup {XzStream(check, 0, <<>>) : check \in {0, 1, 4, 10}}
       \cup {XzStream(check, 1, PAYLOAD) : check \in {0, 1, 4}}
       \cup {XzStream(XZ_CHECK_CRC32, 1, <<>>),
             XzStreamHeader(1, XZ_CHECK_CRC32)}
       \cup {Corrupt(good, 0, 0), Corrupt(good, 8, 0), Corrupt(good, 14, 34),
             Corrupt(good, 24, 2), Corrupt(good, 24, 128),
             Corrupt(good, 27, 8), Corrupt(good, 37, 2),
             Corrupt(good, 55, 0)}

XzBufInit(in, in_size) ==
  [in |-> in, in_pos |-> 0, in_size |-> in_size,
   out |-> <<>>, out_pos |-> 0,
   out_size |-> Len(in) * ELF_LZMA_UNCOMPRESSOR_GROW_FACTOR]

XzStep(kind, ret, main, progress) ==
  [kind |-> kind, ret |-> ret, main |-> main, progress |-> progress]

XzInit ==
  \E in \in XzInputs, alloc_ok \in BOOLEAN, whole \in BOOLEAN :
    /\ alloc_ok \/ in = XzStream(XZ_CHECK_CRC32, 1, PAYLOAD)
    /\ xzs = xz_dec_init(alloc_ok)
    /\ xzb = XzBufInit(in, IF whole THEN Len(in) ELSE 0)
    /\ xzres = <<>>
    /\ xzlast = XzStep("reset", "", "", FALSE)
    /\ xzprev = XzStep("none", "", "", FALSE)
    /\ xzhdr = <<>>
    /\ xzfeeds = 0

XzIdle ==
  /\ xzs = <<>>
  /\ xzb = <<>>
  /\ xzres = <<>>
  /\ xzlast = <<>>
  /\ xzprev = <<>>
  /\ xzhdr = <<>>
  /\ xzfeeds = 0

\* One turn of the do/while loop: ret = xz_dec_run(&dec, &buf), then the
\* output buffer is grown if it is full.  The loop runs while ret == XZ_OK.
XzCallerTurn(r) ==
  /\ xzs' = r.s
  /\ xzb' = IF r.b.out_pos = r.b.out_size /\ r.ret = "XZ_OK"
              THEN [r.b EXCEPT
                      !.out = <<>>, !.out_pos = 0,
                      !.out_size =
                         Len(r.b.in) * ELF_LZMA_UNCOMPRESSOR_GROW_FACTOR]
            ELSE r.b
  /\ xzres' = <<r.ret>>
  /\ xzprev' = xzlast
  /\ xzlast' = XzStep("run", r.ret, r.main,
                      xzb.in_pos # r.b.in_pos \/ xzb.out_pos # r.b.out_pos)
  /\ xzhdr' = IF r.hdr # <<>> THEN r.hdr ELSE xzhdr

XzDecRun ==
  /\ xzlast # <<>>
  /\ xzres \in {<<>>, <<"XZ_OK">>}
  /\ XzCallerTurn(xz_dec_run(xzs, xzb))
  /\ UNCHANGED xzfeeds
  /\ UNCHANGED otherThanXz

\* More of the input becomes available: one byte, a stream header's worth,
\* or all the rest.
XzFeed ==
  /\ xzlast # <<>>
  /\ xzres \in {<<>>, <<"XZ_OK">>}
  /\ xzfeeds < MaxFeeds
  /\ xzb.in_size < Len(xzb.in)
  /\ \E n \in {1, XZ_STREAM_HEADER_SIZE, Len(xzb.in)} :
       xzb' = [xzb EXCEPT !.in_size = min_t(@ + n, Len(xzb.in))]
  /\ xzfeeds' = xzfeeds + 1
  /\ UNCHANGED <<xzs, xzres, xzlast, xzprev, xzhdr>>
  /\ UNCHANGED otherThanXz

\* The decoder is reset and the input is decoded again from its start.
XzDecReset ==
  /\ xzlast # <<>>
  /\ xzlast.kind = "run"
  /\ xzs' = xz_dec_reset(xzs)
  /\ xzb' = XzBufInit(xzb.in, xzb.in_size)
  /\ xzres' = <<>>
  /\ xzprev' = xzlast
  /\ xzlast' = XzStep("reset", "", "", FALSE)
  /\ xzhdr' = <<>>
  /\ UNCHANGED xzfeeds
  /\ UNCHANGED otherThanXz

XzNext ==
  \/ XzDecRun
  \/ XzFeed
  \/ XzDecReset

\* No behaviour steps into the LZMA decoder or a BCJ filter.
XzInsideModel == xzres # <<"OUTSIDE_MODEL">>

(***************************************************************************)
(* The zlib inflater (elf.c: elf_zlib_inflate and what surrounds it).  A   *)
(* section is [c, align, past]: its bytes, the address of its first byte   *)
(* modulo 4, and the byte a read past its end yields.  Positions are       *)
(* offsets from the start of the section.  val is kept as the bits it      *)
(* holds, lowest bit first, so bits is Len(val).  A Huffman table is the    *)
(* sequence of its uint16_t entries.                                       *)
(***************************************************************************)
ZByte(z, i) == IF i < Len(z.c) THEN z.c[i + 1] ELSE z.past

ZFailed(z) == [z |-> z, ret |-> 0]

\* the n low bits of b, lowest first
ZBits(b, n) == [k \in 1..n |-> (b \div (2 ^ (k - 1))) % 2]

\* (val >> (i - 1)) & ((1U << n) - 1): val holds no bit but its bits lowest
RECURSIVE ZValFrom(_, _, _)
ZValFrom(val, i, n) ==
  IF n = 0 \/ i > Len(val) THEN 0
  ELSE val[i] + 2 * ZValFrom(val, i + 1, n - 1)

\* val >>= n; bits -= n;
ZShift(z, n) ==
  CASE n <= Len(z.val) -> [z EXCEPT !.val = SubSeq(@, n + 1, Len(@))]

\* while ((((uintptr_t) pin) & 3) != 0) { val |= *pin << bits; bits += 8; ++pin; }
RECURSIVE elf_zlib_align(_)
elf_zlib_align(z) ==
  IF (z.align + z.pin) % 4 = 0 THEN z
  ELSE elf_zlib_align([z EXCEPT !.val = @ \o ZBits(ZByte(z, z.pin), 8),
                                !.pin = @ + 1])

elf_zlib_fetch(z) ==
  IF Len(z.val) >= 15 THEN [z |-> z, ret |-> 1]
  ELSE IF z.pinend - z.pin < 4 THEN ZFailed(z)
  ELSE [z |-> [z EXCEPT !.val = @ \o ZBits(ZByte(z, z.pin), 8)
                                  \o ZBits(ZByte(z, z.pin + 1), 8)
                                  \o ZBits(ZByte(z, z.pin + 2), 8)
                                  \o ZBits(ZByte(z, z.pin + 3), 8),
                        !.pin = @ + 4],
        ret |-> 1]

HUFFMAN_TABLE_SIZE == 1024

HUFFMAN_VALUE_MASK == 511

HUFFMAN_BITS_SHIFT == 9

HUFFMAN_BITS_MASK == 7

HUFFMAN_SECONDARY_SHIFT == 12

\* static const uint16_t elf_zlib_default_table[0x170]
elf_zlib_default_table ==
  << 3328, 3664, 3600, 3864, 3344, 3696, 3632, 4656,
     3336, 3680, 3616, 4624, 3584, 3712, 3648, 4688,
     3332, 3672, 3608, 4608, 3348, 3704, 3640, 4672,
     3340, 3688, 3624, 4640, 3592, 3720, 3656, 4704,
     3330, 3668, 3604, 3868, 3346, 3700, 3636, 4664,
     3338, 3684, 3620, 4632, 3588, 3716, 3652, 4696,
     3334, 3676, 3612, 4616, 3350, 3708, 3644, 4680,
     3342, 3692, 3628, 4648, 3596, 3724, 3660, 4712,
     3329, 3666, 3602, 3866, 3345, 3698, 3634, 4660,
     3337, 3682, 3618, 4628, 3586, 3714, 3650, 4692,
     3333, 3674, 3610, 4612, 3349, 3706, 3642, 4676,
     3341, 3690, 3626, 4644, 3594, 3722, 3658, 4708,
     3331, 3670, 3606, 3870, 3347, 3702, 3638, 4668,
     3339, 3686, 3622, 4636, 3590, 3718, 3654, 4700,
     3335, 3678, 3614, 4620, 3351, 3710, 3646, 4684,
     3343, 3694, 3630, 4652, 3598, 3726, 3662, 4716,
     3328, 3665, 3601, 3865, 3344, 3697, 3633, 4658,
     3336, 3681, 3617, 4626, 3585, 3713, 3649, 4690,
     3332, 3673, 3609, 4610, 3348, 3705, 3641, 4674,
     3340, 3689, 3625, 4642, 3593, 3721, 3657, 4706,
     3330, 3669, 3605, 3869, 3346, 3701, 3637, 4666,
     3338, 3685, 3621, 4634, 3589, 3717, 3653, 4698,
     3334, 3677, 3613, 4618, 3350, 3709, 3645, 4682,
     3342, 3693, 3629, 4650, 3597, 3725, 3661, 4714,
     3329, 3667, 3603, 3867, 3345, 3699, 3635, 4662,
     3337, 3683, 3619, 4630, 3587, 3715, 3651, 4694,
     3333, 3675, 3611, 4614, 3349, 3707, 3643, 4678,
     3341, 3691, 3627, 4646, 3595, 3723, 3659, 4710,
     3331, 3671, 3607, 3871, 3347, 3703, 3639, 4670,
     3339, 3687, 3623, 4638, 3591, 3719, 3655, 4702,
     3335, 3679, 3615, 4622, 3351, 3711, 3647, 4686,
     3343, 3695, 3631, 4654, 3599, 3727, 3663, 4718,
     656, 657, 658, 659, 660, 661, 662, 663,
     664, 665, 666, 667, 668, 669, 670, 671,
     672, 673, 674, 675, 676, 677, 678, 679,
     680, 681, 682, 683, 684, 685, 686, 687,
     688, 689, 690, 691, 692, 693, 694, 695,
     696, 697, 698, 699, 700, 701, 702, 703,
     704, 705, 706, 707, 708, 709, 710, 711,
     712, 713, 714, 715, 716, 717, 718, 719,
     720, 721, 722, 723, 724, 725, 726, 727,
     728, 729, 730, 731, 732, 733, 734, 735,
     736, 737, 738, 739, 740, 741, 742, 743,
     744, 745, 746, 747, 748, 749, 750, 751,
     752, 753, 754, 755, 756, 757, 758, 759,
     760, 761, 762, 763, 764, 765, 766, 767 >>

\* static const uint16_t elf_zlib_default_dist_table[0x100]
elf_zlib_default_dist_table ==
  << 2048, 2064, 2056, 2072, 2052, 2068, 2060, 2076,
     2050, 2066, 2058, 2074, 2054, 2070, 2062, 2078,
     2049, 2065, 2057, 2073, 2053, 2069, 2061, 2077,
     2051, 2067, 2059, 2075, 2055, 2071, 2063, 2079,
     2048, 2064, 2056, 2072, 2052, 2068, 2060, 2076,
     2050, 2066, 2058, 2074, 2054, 2070, 2062, 2078,
     2049, 2065, 2057, 2073, 2053, 2069, 2061, 2077,
     2051, 2067, 2059, 2075, 2055, 2071, 2063, 2079,
     2048, 2064, 2056, 2072, 2052, 2068, 2060, 2076,
     2050, 2066, 2058, 2074, 2054, 2070, 2062, 2078,
     2049, 2065, 2057, 2073, 2053, 2069, 2061, 2077,
     2051, 2067, 2059, 2075, 2055, 2071, 2063, 2079,
     2048, 2064, 2056, 2072, 2052, 2068, 2060, 2076,
     2050, 2066, 2058, 2074, 2054, 2070, 2062, 2078,
     2049, 2065, 2057, 2073, 2053, 2069, 2061, 2077,
     2051, 2067, 2059, 2075, 2055, 2071, 2063, 2079,
     2048, 2064, 2056, 2072, 2052, 2068, 2060, 2076,
     2050, 2066, 2058, 2074, 2054, 2070, 2062, 2078,
     2049, 2065, 2057, 2073, 2053, 2069, 2061, 2077,
     2051, 2067, 2059, 2075, 2055, 2071, 2063, 2079,
     2048, 2064, 2056, 2072, 2052, 2068, 2060, 2076,
     2050, 2066, 2058, 2074, 2054, 2070, 2062, 2078,
     2049, 2065, 2057, 2073, 2053, 2069, 2061, 2077,
     2051, 2067, 2059, 2075, 2055, 2071, 2063, 2079,
     2048, 2064, 2056, 2072, 2052, 2068, 2060, 2076,
     2050, 2066, 2058, 2074, 2054, 2070, 2062, 2078,
     2049, 2065, 2057, 2073, 2053, 2069, 2061, 2077,
     2051, 2067, 2059, 2075, 2055, 2071, 2063, 2079,
     2048, 2064, 2056, 2072, 2052, 2068, 2060, 2076,
     2050, 2066, 2058, 2074, 2054, 2070, 2062, 2078,
     2049, 2065, 2057, 2073, 2053, 2069, 2061, 2077,
     2051, 2067, 2059, 2075, 2055, 2071, 2063, 2079 >>

\* The values VAL with codes[VAL] = j in increasing order, which is the
\* chain START[j], NEXT[START[j]], ... the first loop of
\* elf_zlib_inflate_table links; its length is COUNT[j].
ZChain(codes, j) ==
  LET HasLength(val) == codes[val + 1] = j
  IN SelectSeq([i \in 1..Len(codes) |-> i - 1], HasLength)

ZTableFailed == [ret |-> 0, table |-> <<>>]

\* incr = 1U << (j - 1); while ((code & incr) != 0) incr >>= 1;
\* if (incr == 0) code = 0; else { code &= incr - 1; code += incr; }
RECURSIVE ZIncrement(_, _)
ZIncrement(code, incr) ==
  IF incr = 0 THEN 0
  ELSE IF (code \div incr) % 2 = 1 THEN ZIncrement(code, incr \div 2)
  ELSE (code % incr) + incr

\* for (ind = first; ind < limit; ind += step)
\*   { if (table[at + ind] != 0) fail; table[at + ind] = tval; }
\* The entries the loop comes to are all different, so it fails if one of
\* them is taken and sets them all otherwise.
ZFillEntry(e, at, first, limit, step) ==
  /\ e - 1 - at >= first
  /\ e - 1 - at < limit
  /\ (e - 1 - at - first) % step = 0

ZFill(table, at, first, limit, step, tval) ==
  IF \E e \in 1..Len(table) :
       ZFillEntry(e, at, first, limit, step) /\ table[e] # 0
    THEN ZTableFailed
  ELSE [ret |-> 1,
        table |-> [e \in 1..Len(table) |->
                     IF ZFillEntry(e, at, first, limit, step) THEN tval
                     ELSE table[e]] \o <<>>]

RECURSIVE ZPrimaryValues(_, _, _, _, _)

\* the rest of one turn of for (i = 0; i < jcnt; ++i) once the table
\* entries of the i-th value are filled in
ZPrimaryFilled(r, code, j, vals, i) ==
  IF r.ret = 0 THEN [ret |-> 0, table |-> <<>>, code |-> code]
  ELSE ZPrimaryValues(r.table, ZIncrement(code, 2 ^ (j - 1)), j, vals, i + 1)

\* for (i = 0; i < jcnt; ++i) of the values that need no secondary table
ZPrimaryValues(table, code, j, vals, i) ==
  IF i > Len(vals) THEN [ret |-> 1, table |-> table, code |-> code]
  ELSE IF vals[i] >= HUFFMAN_VALUE_MASK + 1
    THEN [ret |-> 0, table |-> <<>>, code |-> code]
  ELSE ZPrimaryFilled(
         ZFill(table, 0, code, 256, 2 ^ j,
               vals[i] + (j - 1) * (2 ^ HUFFMAN_BITS_SHIFT)),
         code, j, vals, i)

\* for (j = 1; j <= 8; ++j)
RECURSIVE ZPrimaryLengths(_, _, _)
ZPrimaryLengths(codes, r, j) ==
  IF r.ret = 0 \/ j > 8 THEN r
  ELSE IF Len(ZChain(codes, j)) > 2 ^ j
    THEN [ret |-> 0, table |-> <<>>, code |-> r.code]
  ELSE ZPrimaryLengths(codes,
                       ZPrimaryValues(r.table, r.code, j, ZChain(codes, j), 1),
                       j + 1)

\* for (m = 0; m < j - k; ++m, bit >>= 1)
\*   { if ((code & bit) == 0) { code += bit; break; } code &= ~bit; }
RECURSIVE ZReverseAddBit(_, _, _)
ZReverseAddBit(code, bit, m) ==
  IF m = 0 THEN code
  ELSE IF (code \div bit) % 2 = 0 THEN code + bit
  ELSE ZReverseAddBit(code - bit, bit \div 2, m - 1)

\* Reverse add JCNT to CODE modulo 2^J: for (k = 0; k < j; ++k)
RECURSIVE ZReverseAdd(_, _, _, _)
ZReverseAdd(code, jcnt, j, k) ==
  IF k >= j THEN code
  ELSE IF (jcnt \div (2 ^ k)) % 2 = 1
    THEN ZReverseAdd(ZReverseAddBit(code, 2 ^ (j - k - 1), j - k), jcnt, j, k + 1)
  ELSE ZReverseAdd(code, jcnt, j, k + 1)

\* for (j = 9; j < 16; j++): firstcode[j - 9] for every length in use, as a
\* function of j, or <<>> when a count does not fit its length
RECURSIVE ZFirstCodes(_, _, _, _)
ZFirstCodes(codes, code, j, firstcode) ==
  IF j >= 16 THEN <<firstcode>>
  ELSE IF Len(ZChain(codes, j)) = 0 THEN ZFirstCodes(codes, code, j + 1, firstcode)
  ELSE IF Len(ZChain(codes, j)) >= 2 ^ j THEN <<>>
  ELSE ZFirstCodes(codes, ZReverseAdd(code, Len(ZChain(codes, j)), j, 0), j + 1,
                   [firstcode EXCEPT ![j] = code])

RECURSIVE ZSecondaryValues(_, _, _, _)

\* the rest of the turn for the i-th value of length j once primary,
\* secondary and secondary_bits are settled: s is [table, next_secondary,
\* code, primary, secondary, secondary_bits]
ZSecondaryFilled(r, s, j, vals, i) ==
  IF r.ret = 0 THEN [ret |-> 0, s |-> s]
  ELSE ZSecondaryValues([s EXCEPT !.table = r.table,
                                  !.code = ZIncrement(s.code, 2 ^ (j - 1))],
                        j, vals, i + 1)

ZSecondaryFill(s, j, vals, i) ==
  ZSecondaryFilled(
    ZFill(s.table, s.secondary + 256, s.code \div 256, 2 ^ s.secondary_bits,
          2 ^ (j - 8), vals[i] + (j - 8) * (2 ^ HUFFMAN_BITS_SHIFT)),
    s, j, vals, i)

\* if ((code & 0xff) != primary): a new primary table entry
ZSecondaryPrimary(s, j, vals, i, tprimary) ==
  IF tprimary = 0
    THEN (IF s.next_secondary % (HUFFMAN_VALUE_MASK + 1) # s.next_secondary
            THEN [ret |-> 0, s |-> s]
          ELSE ZSecondaryFill(
                 [s EXCEPT !.primary = s.code % 256,
                           !.secondary = s.next_secondary,
                           !.secondary_bits = j - 8,
                           !.next_secondary = @ + 2 ^ (j - 8),
                           !.table = [@ EXCEPT ![(s.code % 256) + 1] =
                                        s.next_secondary
                                        + (j - 8) * (2 ^ HUFFMAN_BITS_SHIFT)
                                        + 2 ^ HUFFMAN_SECONDARY_SHIFT]],
                 j, vals, i))
  ELSE IF (tprimary \div (2 ^ HUFFMAN_SECONDARY_SHIFT)) % 2 = 0
    THEN [ret |-> 0, s |-> s]
  ELSE IF (tprimary \div (2 ^ HUFFMAN_BITS_SHIFT)) % (HUFFMAN_BITS_MASK + 1) < j - 8
    THEN [ret |-> 0, s |-> s]
  ELSE ZSecondaryFill(
         [s EXCEPT !.primary = s.code % 256,
                   !.secondary = tprimary % (HUFFMAN_VALUE_MASK + 1),
                   !.secondary_bits =
                     (tprimary \div (2 ^ HUFFMAN_BITS_SHIFT)) % (HUFFMAN_BITS_MASK + 1)],
         j, vals, i)

\* for (i = 0; i < jcnt; ++i) of the values of a length from 9 on
ZSecondaryValues(s, j, vals, i) ==
  IF i > Len(vals) THEN [ret |-> 1, s |-> s]
  ELSE IF s.code % 256 # s.primary
    THEN ZSecondaryPrimary(s, j, vals, i, s.table[(s.code % 256) + 1])
  ELSE ZSecondaryFill(s, j, vals, i)

\* for (j = 15; j >= 9; j--)
RECURSIVE ZSecondaryLengths(_, _, _, _)
ZSecondaryLengths(codes, firstcode, r, j) ==
  IF r.ret = 0 \/ j < 9 THEN r
  ELSE IF Len(ZChain(codes, j)) = 0
    THEN ZSecondaryLengths(codes, firstcode, r, j - 1)
  ELSE ZSecondaryLengths(
         codes, firstcode,
         ZSecondaryValues([r.s EXCEPT !.code = firstcode[j], !.primary = 256,
                                      !.secondary = 0, !.secondary_bits = 0],
                          j, ZChain(codes, j), 1),
         j - 1)

\* elf_zlib_inflate_table from the second half on: p is what the lengths
\* up to 8 came to, f the first codes of the longer ones
ZTableSecondary(codes, p, f) ==
  IF f = <<>> THEN ZTableFailed
  ELSE ZSecondaryLengths(
         codes, f[1],
         [ret |-> 1,
          s |-> [table |-> p.table, next_secondary |-> 0, code |-> p.code,
                 primary |-> 256, secondary |-> 0, secondary_bits |-> 0]],
         15)

ZTablePrimary(codes, p) ==
  IF p.ret = 0 THEN ZTableFailed
  ELSE ZTableSecondary(codes, p, ZFirstCodes(codes, p.code, 9, [j \in 9..15 |-> 0]))

ZTableBuilt(r) ==
  IF r.ret = 0 THEN ZTableFailed ELSE [ret |-> 1, table |-> r.s.table]

\* Build a Huffman code table from an array of lengths in CODES: [ret, table]
elf_zlib_inflate_table(codes) ==
  IF \E i \in 1..Len(codes) : codes[i] >= 16 THEN ZTableFailed
  ELSE ZTableBuilt(
         ZTablePrimary(
           codes,
           ZPrimaryLengths(codes,
                           [ret |-> 1,
                            table |-> [k \in 1..HUFFMAN_TABLE_SIZE |-> 0] \o <<>>,
                            code |-> 0],
                           1)))

\* t = table[val & 0xff] and, for a secondary table, the second look:
\* v is the value found and n the number of bits of val it stands for
ZLookupSecondary(t) ==
  [v |-> t % (HUFFMAN_VALUE_MASK + 1),
   n |-> ((t \div (2 ^ HUFFMAN_BITS_SHIFT)) % (HUFFMAN_BITS_MASK + 1)) + 8]

ZLookupPrimary(table, val, t, b, v) ==
  IF (t \div (2 ^ HUFFMAN_SECONDARY_SHIFT)) % 2 = 0 THEN [v |-> v, n |-> b + 1]
  ELSE ZLookupSecondary(table[v + 256 + ZValFrom(val, 9, b) + 1])

ZLookupEntry(table, val, t) ==
  ZLookupPrimary(table, val, t,
                 (t \div (2 ^ HUFFMAN_BITS_SHIFT)) % (HUFFMAN_BITS_MASK + 1),
                 t % (HUFFMAN_VALUE_MASK + 1))

ZLookup(table, val) == ZLookupEntry(table, val, table[ZValFrom(val, 1, 8) + 1])

\* Where elf_zlib_inflate goes on once a turn of one of its loops is over:
\* around the main loop again (turn "loop", with the two tables in use),
\* around while (plen < plenend) again (turn "lengths"), or to the top of
\* while (!last) (turn "block").  A record with ret is what it returned.
ZInflateLoop(z, tlit, tdist) ==
  [z |-> z, turn |-> "loop", tlit |-> tlit, tdist |-> tdist]

ZNextBlock(z) == [z |-> z, turn |-> "block"]

\* while (len > 0) { copy = len < dist ? len : dist; memcpy (pout, pout - dist,
\* copy); len -= copy; pout += copy; }, and the one memcpy of dist >= len:
\* every chunk is copied from dist bytes back, so the k-th byte written is
\* the one dist bytes before it.
ZCopyChunks(out, dcode, len) ==
  out \o [k \in 1..len |-> out[Len(out) - dcode + ((k - 1) % dcode) + 1]]

\* Go back dist bytes, and copy len bytes from there.
ZCopy(z, dcode, len, tlit, tdist) ==
  IF Len(z.out) < dcode THEN ZFailed(z)
  ELSE IF z.sout - Len(z.out) < len THEN ZFailed(z)
  ELSE ZInflateLoop([z EXCEPT !.out = ZCopyChunks(@, dcode, len)], tlit, tdist)

\* the distance code's extra bits, once elf_zlib_fetch returned f; dcode is
\* the code less 4
ZDistExtra(f, dcode, len, tlit, tdist) ==
  IF f.ret = 0 THEN f
  ELSE ZCopy(ZShift(f.z, (dcode \div 2) + 1),
             (dcode % 2) * (2 ^ ((dcode \div 2) + 1)) + 5
               + ((2 ^ (dcode \div 2)) - 1) * 4
               + ZValFrom(f.z.val, 1, (dcode \div 2) + 1),
             len, tlit, tdist)

\* Convert dist to a distance.
ZDistCode(z, dcode, len, tlit, tdist) ==
  IF dcode = 0
    THEN (IF Len(z.out) = 0 THEN ZFailed(z)
          ELSE IF z.sout - Len(z.out) < len THEN ZFailed(z)
          ELSE ZInflateLoop(
                 [z EXCEPT !.out = @ \o [k \in 1..len |-> z.out[Len(z.out)]]],
                 tlit, tdist))
  ELSE IF dcode > 29 THEN ZFailed(z)
  ELSE IF dcode < 4 THEN ZCopy(z, dcode + 1, len, tlit, tdist)
  ELSE ZDistExtra(elf_zlib_fetch(z), dcode - 4, len, tlit, tdist)

ZDistTaken(z, s, len, tlit, tdist) ==
  ZDistCode(ZShift(z, s.n), s.v, len, tlit, tdist)

\* t = tdist[val & 0xff]; ..., once elf_zlib_fetch returned f
ZDist(f, len, tlit, tdist) ==
  IF f.ret = 0 THEN f
  ELSE ZDistTaken(f.z, ZLookup(tdist, f.z.val), len, tlit, tdist)

\* the length code's extra bits, once elf_zlib_fetch returned f; lit is the
\* code less 265
ZLenExtra(f, lit, tlit, tdist) ==
  IF f.ret = 0 THEN f
  ELSE ZDist(elf_zlib_fetch(ZShift(f.z, (lit \div 4) + 1)),
             (lit % 4) * (2 ^ ((lit \div 4) + 1)) + 11
               + ((2 ^ (lit \div 4)) - 1) * 8
               + ZValFrom(f.z.val, 1, (lit \div 4) + 1),
             tlit, tdist)

\* what the value decoded from tlit sets off
ZLit(z, lit, tlit, tdist) ==
  IF lit < 256
    THEN (IF Len(z.out) = z.sout THEN ZFailed(z)
          ELSE ZInflateLoop([z EXCEPT !.out = Append(@, lit)], tlit, tdist))
  ELSE IF lit = 256 THEN ZNextBlock(z)
  ELSE IF lit < 265 THEN ZDist(elf_zlib_fetch(z), lit - 257 + 3, tlit, tdist)
  ELSE IF lit = 285 THEN ZDist(elf_zlib_fetch(z), 258, tlit, tdist)
  ELSE IF lit > 285 THEN ZFailed(z)
  ELSE ZLenExtra(elf_zlib_fetch(z), lit - 265, tlit, tdist)

ZLitTaken(z, s, tlit, tdist) == ZLit(ZShift(z, s.n), s.v, tlit, tdist)

\* t = tlit[val & 0xff]; ..., once elf_zlib_fetch returned f
ZLitFetched(f, tlit, tdist) ==
  IF f.ret = 0 THEN f
  ELSE ZLitTaken(f.z, ZLookup(tlit, f.z.val), tlit, tdist)

\* Inflate values until the end of the block: one turn of while (1)
ZInflateTurn(z, tlit, tdist) == ZLitFetched(elf_zlib_fetch(z), tlit, tdist)

\* the uncompressed block from memcpy on: len bytes copied, PIN aligned
\* again, and around to the next block
ZStoredCopy(z, len) ==
  ZNextBlock(
    elf_zlib_align([z EXCEPT !.out = @ \o [k \in 1..len |-> ZByte(z, z.pin + k - 1)],
                             !.pin = @ + len]))

\* the uncompressed block once len and lenc are read and pin is past them
ZStoredLen(z, len, lenc) ==
  IF len # lenc THEN ZFailed(z)
  ELSE IF len > z.pinend - z.pin \/ len > z.sout - Len(z.out) THEN ZFailed(z)
  ELSE ZStoredCopy(z, len)

\* if (type == 0), from val = 0; bits = 0; on
ZStored(z) ==
  IF z.pinend - z.pin < 4 THEN ZFailed(z)
  ELSE ZStoredLen([z EXCEPT !.pin = @ + 4],
                  ZByte(z, z.pin) + 256 * ZByte(z, z.pin + 1),
                  65535 - (ZByte(z, z.pin + 2) + 256 * ZByte(z, z.pin + 3)))

\* The order in which the code lengths of the code length alphabet are
\* stored (RFC 1951), as elf_zlib_inflate reads them into codebits
ZCodebitsOrder == <<16, 17, 18, 0, 8, 7, 9, 6, 10, 5, 11, 4, 12, 3, 13, 2, 14, 1, 15>>

\* Build the decompression tables, tlit being built, and inflate the block
ZDynamicDist(z, tlit, td) ==
  IF td.ret = 0 THEN ZFailed(z) ELSE ZInflateLoop(z, tlit, td.table)

ZDynamicLit(z, tl, plen, nlit) ==
  IF tl.ret = 0 THEN ZFailed(z)
  ELSE ZDynamicDist(z, tl.table,
                    elf_zlib_inflate_table(SubSeq(plen, nlit + 1, Len(plen))))

\* Make sure that the stop code can appear.
ZDynamicTables(z, plen, nlit) ==
  IF plen[257] = 0 THEN ZFailed(z)
  ELSE ZDynamicLit(z, elf_zlib_inflate_table(SubSeq(plen, 1, nlit)), plen, nlit)

\* around while (plen < plenend) again
ZCodeLengths(z, zt, plen, total, nlit) ==
  [z |-> z, turn |-> "lengths", zt |-> zt, plen |-> plen, total |-> total,
   nlit |-> nlit]

\* c more entries of prev: if ((unsigned int) (plenend - plen) < c) fail
ZCodeLengthRepeat(z, c, prev, zt, plen, total, nlit) ==
  IF total - Len(plen) < c THEN ZFailed(z)
  ELSE ZCodeLengths(z, zt, plen \o [k \in 1..c |-> prev], total, nlit)

ZCodeLengthValue(z, v, zt, plen, total, nlit) ==
  IF v < 16 THEN ZCodeLengths(z, zt, Append(plen, v), total, nlit)
  ELSE IF v = 16
    THEN (IF plen = <<>> THEN ZFailed(z)
          ELSE ZCodeLengthRepeat(ZShift(z, 2), 3 + ZValFrom(z.val, 1, 2),
                                 plen[Len(plen)], zt, plen, total, nlit))
  ELSE IF v = 17
    THEN ZCodeLengthRepeat(ZShift(z, 3), 3 + ZValFrom(z.val, 1, 3), 0, zt, plen,
                           total, nlit)
  ELSE IF v = 18
    THEN ZCodeLengthRepeat(ZShift(z, 7), 11 + ZValFrom(z.val, 1, 7), 0, zt, plen,
                           total, nlit)
  ELSE ZFailed(z)

\* t = zdebug_table[val & 0xff]: a secondary table is never necessary
ZCodeLengthEntry(z, t, zt, plen, total, nlit) ==
  IF (t \div (2 ^ HUFFMAN_SECONDARY_SHIFT)) % 2 # 0 THEN ZFailed(z)
  ELSE ZCodeLengthValue(
         ZShift(z, ((t \div (2 ^ HUFFMAN_BITS_SHIFT)) % (HUFFMAN_BITS_MASK + 1)) + 1),
         t % (HUFFMAN_VALUE_MASK + 1), zt, plen, total, nlit)

ZCodeLengthFetched(f, zt, plen, total, nlit) ==
  IF f.ret = 0 THEN f
  ELSE ZCodeLengthEntry(f.z, zt[ZValFrom(f.z.val, 1, 8) + 1], zt, plen, total, nlit)

\* while (plen < plenend): one turn for the compressed bit lengths of the
\* literal, length, and distance codes, or what follows the loop
ZCodeLengthsTurn(z, zt, plen, total, nlit) ==
  IF Len(plen) >= total THEN ZDynamicTables(z, plen, nlit)
  ELSE ZCodeLengthFetched(elf_zlib_fetch(z), zt, plen, total, nlit)

\* codebitsdone:
ZCodebitsDone(z, zt, nlit, ndist) ==
  IF zt.ret = 0 THEN ZFailed(z)
  ELSE ZCodeLengths(z, zt.table, <<>>, nlit + ndist, nlit)

RECURSIVE ZCodebits(_, _, _, _, _, _)

\* codebits[...] = val & 7; val >>= 3; bits -= 3; for the k-th of them
ZCodebitsRead(z, k, nclen, codebits, nlit, ndist) ==
  ZCodebits(ZShift(z, 3), k + 1, nclen,
            [codebits EXCEPT ![ZCodebitsOrder[k + 1] + 1] = ZValFrom(z.val, 1, 3)],
            nlit, ndist)

ZCodebitsFetched(f, k, nclen, codebits, nlit, ndist) ==
  IF f.ret = 0 THEN f
  ELSE ZCodebitsRead(f.z, k, nclen, codebits, nlit, ndist)

\* the nclen elements of codebits, val being refilled before the first,
\* the sixth, the eleventh and the sixteenth
ZCodebits(z, k, nclen, codebits, nlit, ndist) ==
  IF k >= nclen
    THEN ZCodebitsDone(z, elf_zlib_inflate_table(codebits), nlit, ndist)
  ELSE IF k \in {0, 5, 10, 15}
    THEN ZCodebitsFetched(elf_zlib_fetch(z), k, nclen, codebits, nlit, ndist)
  ELSE ZCodebitsRead(z, k, nclen, codebits, nlit, ndist)

ZDynamicCounts(z, nlit, ndist, nclen) ==
  IF nlit > 286 \/ ndist > 30 THEN ZFailed(z)
  ELSE ZCodebits(z, 0, nclen, [k \in 1..19 |-> 0], nlit, ndist)

ZDynamicHeader(f) ==
  IF f.ret = 0 THEN f
  ELSE ZDynamicCounts(ZShift(f.z, 14), ZValFrom(f.z.val, 1, 5) + 257,
                      ZValFrom(f.z.val, 6, 5) + 1, ZValFrom(f.z.val, 11, 4) + 4)

\* Read a Huffman encoding table (type 2) and inflate the block
ZDynamic(z) == ZDynamicHeader(elf_zlib_fetch(z))

\* If we've read ahead more than a byte, back up.
\* while (bits > 8) { --pin; bits -= 8; }
RECURSIVE ZBackUp(_, _)
ZBackUp(pin, bits) == IF bits > 8 THEN ZBackUp(pin - 1, bits - 8) ELSE pin

\* the block of the type read, val and bits past the three header bits
ZBlockType(z, type) ==
  IF type = 3 THEN ZFailed(z)
  ELSE IF type = 0
    THEN ZStored([z EXCEPT !.pin = ZBackUp(z.pin, Len(z.val)), !.val = <<>>])
  ELSE IF type = 1
    THEN ZInflateLoop(z, elf_zlib_default_table, elf_zlib_default_dist_table)
  ELSE ZDynamic(z)

\* one turn of while (!last) after elf_zlib_fetch returned f
ZBlock(f) ==
  IF f.ret = 0 THEN f
  ELSE ZBlockType(ZShift([f.z EXCEPT !.last = f.z.val[1]], 3),
                  f.z.val[2] + 2 * f.z.val[3])

\* the top of while (!last)
ZBlockTurn(z) ==
  IF z.last = 1 THEN [z |-> z, ret |-> 1]
  ELSE ZBlock(elf_zlib_fetch(z))

\* one turn of the loop elf_zlib_inflate is in, if it has not returned
ZTurn(s) ==
  IF "turn" \notin DOMAIN s THEN s
  ELSE IF s.turn = "block" THEN ZBlockTurn(s.z)
  ELSE IF s.turn = "loop" THEN ZInflateTurn(s.z, s.tlit, s.tdist)
  ELSE ZCodeLengthsTurn(s.z, s.zt, s.plen, s.total, s.nlit)

RECURSIVE ZTurns(_, _)

\* n more turns after those that came to r
ZTurnsOn(r, n) == IF "turn" \notin DOMAIN r THEN r ELSE ZTurns(r, n)

\* n turns, if it takes so many
ZTurns(s, n) ==
  IF n <= 1 THEN ZTurn(s)
  ELSE ZTurnsOn(ZTurns(s, n \div 2), n - (n \div 2))

\* Every turn but the last takes a bit of the input or more, so the loops
\* are over within as many turns as the input has bits.
ZTurnBound(z) == 8 * Len(z.c) + 64

\* while (!last) of one stream, run until elf_zlib_inflate returns or
\* leaves the loop
elf_zlib_blocks(z) == ZTurns(ZNextBlock(z), ZTurnBound(z))

RECURSIVE elf_zlib_streams(_)

\* the end of one turn of while ((pinend - pin) > 4): r is what the blocks
\* of the stream came to
ZStreamDone(r) == IF r.ret # 1 THEN r ELSE elf_zlib_streams(r.z)

\* the two byte zlib header at pin
ZHeader(z, p0, p1) ==
  IF p0 % 16 # 8 THEN ZFailed(z)
  ELSE IF p0 \div 16 > 7 THEN ZFailed(z)
  ELSE IF (p1 \div 32) % 2 # 0 THEN ZFailed(z)
  ELSE IF (p0 * 256 + p1) % 31 # 0 THEN ZFailed(z)
  ELSE ZStreamDone(
         elf_zlib_blocks(
           elf_zlib_align([z EXCEPT !.pin = @ + 2, !.val = <<>>, !.last = 0])))

elf_zlib_streams(z) ==
  IF ~(z.pinend - z.pin > 4) THEN [z |-> z, ret |-> 1]
  ELSE ZHeader(z, ZByte(z, z.pin), ZByte(z, z.pin + 1))

\* We should have filled the output buffer.
ZFilled(r) ==
  IF r.ret # 1 THEN [ret |-> r.ret, out |-> r.z.out]
  ELSE IF Len(r.z.out) # r.z.sout THEN [ret |-> 0, out |-> r.z.out]
  ELSE [ret |-> 1, out |-> r.z.out]

\* pin is the offset of the stream in the section sec, sin its length
elf_zlib_inflate(sec, pin, sin, sout) ==
  ZFilled(elf_zlib_streams([c |-> sec.c, align |-> sec.align, past |-> sec.past,
                            pin |-> pin, pinend |-> pin + sin, val |-> <<>>,
                            last |-> 0, out |-> <<>>, sout |-> sout]))

\* s1 = s1 + *p++; s2 = s2 + s1; for the n bytes from p on
RECURSIVE ZAdlerRun(_, _, _, _)
ZAdlerRun(s, u, p, n) ==
  IF n = 0 THEN s
  ELSE LET s1 == s[1] + u[p + 1]
           next == <<s1, s[2] + s1>>
       IN CASE next \in Nat \X Nat -> ZAdlerRun(next, u, p + 1, n - 1)

\* while (hsz >= 5552) ...; while (hsz >= 16) ...; for (i = 0; i < hsz; ++i) ...
RECURSIVE ZAdlerLoops(_, _, _, _)
ZAdlerLoops(s, u, p, hsz) ==
  IF hsz >= 5552
    THEN LET t == ZAdlerRun(s, u, p, 5552)
         IN ZAdlerLoops(<<t[1] % 65521, t[2] % 65521>>, u, p + 5552, hsz - 5552)
  ELSE IF hsz >= 16
    THEN ZAdlerLoops(ZAdlerRun(s, u, p, 16), u, p + 16, hsz - 16)
  ELSE ZAdlerRun(s, u, p, hsz)

\* what the two sums and the four check bytes come to: (s2 << 16) + s1 and
\* cksum, each as <<high half, low half>>
ZVerified(s, checkbytes) ==
  IF <<s[2] % 65521, s[1] % 65521>>
       # <<checkbytes[1] * 256 + checkbytes[2], checkbytes[3] * 256 + checkbytes[4]>>
    THEN 0
  ELSE 1

elf_zlib_verify_checksum(checkbytes, uncompressed) ==
  ZVerified(ZAdlerLoops(<<1, 0>>, uncompressed, 0, Len(uncompressed)), checkbytes)

\* the four bytes at pin + sin - 4
ZCheckBytes(sec, pin, sin) ==
  LET z == [c |-> sec.c, past |-> sec.past]
  IN [k \in 1..4 |-> ZByte(z, pin + sin - 4 + k - 1)]

\* elf_zlib_inflate_and_verify once elf_zlib_inflate returned inf
ZInflated(inf, checkbytes) ==
  IF inf.ret # 1 THEN [ret |-> inf.ret, out |-> inf.out, inflate |-> inf.ret]
  ELSE IF elf_zlib_verify_checksum(checkbytes, inf.out) = 0
    THEN [ret |-> 0, out |-> inf.out, inflate |-> 1]
  ELSE [ret |-> 1, out |-> inf.out, inflate |-> 1]

\* a variant that trusts whatever elf_zlib_inflate produced
elf_zlib_inflate_and_verify_unverified(sec, pin, sin, sout) ==
  LET inf == elf_zlib_inflate(sec, pin, sin, sout)
  IN [ret |-> inf.ret, out |-> inf.out, inflate |-> inf.ret]

elf_zlib_inflate_and_verify(sec, pin, sin, sout) ==
  ZInflated(elf_zlib_inflate(sec, pin, sin, sout), ZCheckBytes(sec, pin, sin))

(***************************************************************************)
(* The two uncompress functions and elf_add's loops over the compressed    *)
(* sections (elf.c).  A result is [ret, uncompressed, uncompressed_size,   *)
(* verify]: uncompressed is <<>> for NULL and <<bytes>> for a buffer,      *)
(* verify is <<>> when elf_zlib_inflate_and_verify was not called and      *)
(* <<what it returned>> otherwise.  The host is little-endian; elfsize is  *)
(* BACKTRACE_ELF_SIZE.                                                     *)
(***************************************************************************)
ELFCOMPRESS_ZLIB == 1

ZResult(ret, uncompressed, uncompressed_size, verify) ==
  [ret |-> ret, uncompressed |-> uncompressed,
   uncompressed_size |-> uncompressed_size, verify |-> verify]

\* a size given by its bytes, most significant first; the sections of the
\* model keep all but the last two zero
ZSize(b) ==
  CASE \A k \in 1..(Len(b) - 2) : b[k] = 0 -> b[Len(b) - 1] * 256 + b[Len(b)]

ZReverse(b) == [k \in 1..Len(b) |-> b[Len(b) + 1 - k]]

\* either function once elf_zlib_inflate_and_verify returned iv
ZUncompressed(iv, sz) ==
  IF iv.ret = 0 THEN ZResult(1, <<>>, 0, <<iv>>)
  ELSE ZResult(iv.ret, <<iv.out>>, sz, <<iv>>)

\* either function from the allocation of po on
ZAllocated(sec, alloc_ok, pin, sz) ==
  IF ~alloc_ok THEN ZResult(0, <<>>, 0, <<>>)
  ELSE ZUncompressed(elf_zlib_inflate_and_verify(sec, pin, Len(sec.c) - pin, sz), sz)

elf_uncompress_zdebug(sec, alloc_ok) ==
  IF Len(sec.c) < 12 \/ SubSeq(sec.c, 1, 4) # <<90, 76, 73, 66>>
    THEN ZResult(1, <<>>, 0, <<>>)
  ELSE ZAllocated(sec, alloc_ok, 12, ZSize(SubSeq(sec.c, 5, 12)))

\* sizeof (b_elf_chdr)
SizeofChdr(elfsize) == IF elfsize = 32 THEN 12 ELSE 24

\* chdr->ch_size
ChSize(sec) ==
  IF sec.elfsize = 32 THEN ZSize(ZReverse(SubSeq(sec.c, 5, 8)))
  ELSE ZSize(ZReverse(SubSeq(sec.c, 9, 16)))

elf_uncompress_chdr(sec, alloc_ok) ==
  IF Len(sec.c) < SizeofChdr(sec.elfsize) THEN ZResult(1, <<>>, 0, <<>>)
  ELSE IF get_le32(sec.c, 1) # <<0, ELFCOMPRESS_ZLIB>> THEN ZResult(1, <<>>, 0, <<>>)
  ELSE ZAllocated(sec, alloc_ok, SizeofChdr(sec.elfsize), ChSize(sec))

(***************************************************************************)
(* The compressed sections the model runs on.                              *)
(***************************************************************************)
\* Adler-32 as RFC 1950 defines it: <<s2, s1>>
RECURSIVE Adler32(_)
Adler32(u) ==
  IF u = <<>> THEN <<0, 1>>
  ELSE LET a == Adler32(SubSeq(u, 1, Len(u) - 1))
           s1 == (a[2] + u[Len(u)]) % 65521
       IN <<(a[1] + s1) % 65521, s1>>

ZTrailer(u) ==
  <<Adler32(u)[1] \div 256, Adler32(u)[1] % 256,
    Adler32(u)[2] \div 256, Adler32(u)[2] % 256>>

ZStoredBlock(last, data) ==
  <<last, Len(data) % 256, Len(data) \div 256,
    255 - (Len(data) % 256), 255 - (Len(data) \div 256)>> \o data

\* a zlib stream of one or two stored blocks holding first \o second
ZStream(first, second) ==
  <<120, 1>>
  \o (IF second = <<>> THEN ZStoredBlock(1, first)
      ELSE ZStoredBlock(0, first) \o ZStoredBlock(1, second))
  \o ZTrailer(first \o second)

\* Streams zlib's deflate gives, each with the payload it was given.
ZDeflated ==
  {    \* deflate at level 0 of "a": one stored block
       [s |-> <<120, 1, 1, 1, 0, 254, 255, 97, 0, 98, 0, 98>>,
        payload |-> <<97>>],
       \* deflate of "a": one block of the fixed Huffman codes
       [s |-> <<120, 156, 75, 4, 0, 0, 98, 0, 98>>,
        payload |-> <<97>>],
       \* of ten "a": a literal and a match of length 9 at distance 1
       [s |-> <<120, 156, 75, 76, 132, 1, 0, 20, 225, 3, 203>>,
        payload |-> <<97, 97, 97, 97, 97, 97, 97, 97, 97, 97>>],
       \* of "abcdefg" three times: a match of length 14 at distance 7, both
       \* with extra bits
       [s |-> <<120, 156, 75, 76, 74, 78, 73, 77, 75, 79, 68, 161, 0, 89, 253,
                8, 53>>,
        payload |-> <<97, 98, 99, 100, 101, 102, 103, 97, 98, 99, 100, 101,
                      102, 103, 97, 98, 99, 100, 101, 102, 103>>],
       \* of "a", a sync flush, "b": a fixed block, an empty stored block, a
       \* fixed block
       [s |-> <<120, 156, 74, 4, 0, 0, 0, 255, 255, 75, 2, 0, 1, 38, 0, 196>>,
        payload |-> <<97, 98>>],
       \* of three bytes 0xC8 and a sync flush: the stored block's header ends
       \* on a byte boundary
       [s |-> <<120, 156, 58, 113, 226, 4, 0, 0, 0, 255, 255, 3, 0, 4, 179, 2,
                89>>,
        payload |-> <<200, 200, 200>>],
       \* deflate at level 9 of 22 bytes of "a", "b", "c": one block of
       \* dynamic Huffman codes
       [s |-> <<120, 218, 13, 193, 1, 1, 0, 0, 8, 195, 160, 172, 31, 253, 59,
                40, 164, 44, 246, 76, 67, 7, 97, 1, 8, 111>>,
        payload |-> <<98, 99, 98, 98, 99, 97, 98, 99, 99, 97, 97, 97, 97, 99,
                      97, 99, 98, 97, 99, 99, 99, 98>>],
       \* at level 9 of 39 bytes of "a" and "b": a dynamic block whose last
       \* codes are short
       [s |-> <<120, 218, 29, 201, 65, 13, 0, 0, 12, 131, 64, 173, 156, 127,
                17, 203, 250, 34, 64, 82, 241, 244, 52, 179, 90, 123, 57, 41,
                91, 14, 220>>,
        payload |-> <<97, 98, 97, 98, 97, 97, 97, 98, 98, 98, 97, 98, 97, 98,
                      97, 98, 98, 98, 98, 97, 97, 98, 98, 98, 98, 98, 97, 97,
                      97, 98, 97, 97, 97, 97, 97, 98, 98, 97, 98>>] }

ZStreams ==
  LET one == ZStream(<<7>>, <<>>)
      two == ZStream(<<1>>, <<2, 3>>)
      none == ZStream(<<>>, <<>>)
  IN { [s |-> one, sz |-> 1], [s |-> two, sz |-> 3], [s |-> none, sz |-> 0],
       \* no block at all: the four check bytes alone
       [s |-> <<0, 0, 0, 1>>, sz |-> 0],
       \* no stream at all
       [s |-> <<>>, sz |-> 0],
       \* the check bytes wrong in the last, in the first byte, in little-endian
       \* order, all zero
       [s |-> Corrupt(one, Len(one) - 1, 9), sz |-> 1],
       [s |-> Corrupt(two, Len(two) - 4, 1), sz |-> 3],
       [s |-> SubSeq(two, 1, Len(two) - 4)
                \o ZReverse(SubSeq(two, Len(two) - 3, Len(two))), sz |-> 3],
       [s |-> SubSeq(none, 1, Len(none) - 4) \o <<0, 0, 0, 0>>, sz |-> 0],
       \* a data byte changed
       [s |-> Corrupt(two, Len(two) - 5, 4), sz |-> 3],
       \* the recorded size too large, too small
       [s |-> one, sz |-> 2], [s |-> two, sz |-> 2],
       \* block type 3, len and its complement at odds, bad header check,
       \* a preset dictionary, the stream cut short
       [s |-> Corrupt(one, 2, 7), sz |-> 1],
       [s |-> Corrupt(one, 5, 0), sz |-> 1],
       [s |-> Corrupt(one, 1, 2), sz |-> 1],
       [s |-> Corrupt(one, 1, 32), sz |-> 1],
       [s |-> SubSeq(two, 1, 9), sz |-> 3] }
     \cup {[s |-> d.s, sz |-> Len(d.payload)] : d \in ZDeflated}

ZdebugSection(z) ==
  <<90, 76, 73, 66, 0, 0, 0, 0, 0, 0, z.sz \div 256, z.sz % 256>> \o z.s

ChdrSection(elfsize, type, z) ==
  IF elfsize = 32
    THEN <<type, 0, 0, 0, z.sz % 256, z.sz \div 256, 0, 0, 1, 0, 0, 0>> \o z.s
  ELSE <<type, 0, 0, 0, 0, 0, 0, 0,
         z.sz % 256, z.sz \div 256, 0, 0, 0, 0, 0, 0,
         1, 0, 0, 0, 0, 0, 0, 0>> \o z.s

\* the section contents of one pass of elf_add under one BACKTRACE_ELF_SIZE
ZContents(pass, elfsize) ==
  IF pass = "zdebug"
    THEN {ZdebugSection(z) : z \in ZStreams}
         \cup {<<90, 76, 73, 66, 0, 0>>,
               Corrupt(ZdebugSection([s |-> ZStream(<<7>>, <<>>), sz |-> 1]), 3, 0)}
  ELSE {ChdrSection(elfsize, ELFCOMPRESS_ZLIB, z) : z \in ZStreams}
       \cup {<<1, 0, 0, 0, 0, 0>>,
             ChdrSection(elfsize, 2, [s |-> ZStream(<<7>>, <<>>), sz |-> 1])}

ZSections(pass, elfsize) ==
  { [c |-> c, align |-> a, past |-> p, elfsize |-> elfsize] :
      c \in ZContents(pass, elfsize), a \in 0..3, p \in {0, 255} }

\* The error_callback calls of elf_uncompress_zdebug / elf_uncompress_chdr
\* and of the inflater under them: there are none.  error_callback is only
\* handed on to backtrace_alloc, and elf_zlib_failed is empty; what the
\* allocator reports of its own failure is not counted here.
ZReports == <<>>

ZlibInit ==
  \E pass \in {"zdebug", "chdr"}, elfsize \in {32, 64} :
    /\ zsec \in ZSections(pass, elfsize)
    /\ zout = <<>>
    /\ zpass = pass
    /\ zn = 1
    /\ zerrs = <<>>

ZlibIdle ==
  /\ zsec = [c |-> <<>>, align |-> 0, past |-> 0, elfsize |-> 64]
  /\ zout = <<>>
  /\ zpass = "idle"
  /\ zn = 0
  /\ zerrs = <<>>

\* the body of the first loop of elf_add for one section
ZUncompressZdebug ==
  /\ zpass = "zdebug"
  /\ zout = <<>>
  /\ \E alloc_ok \in BOOLEAN : zout' = <<elf_uncompress_zdebug(zsec, alloc_ok)>>
  /\ zerrs' = zerrs \o ZReports
  /\ UNCHANGED <<zsec, zpass, zn>>
  /\ UNCHANGED otherThanZlib

\* the body of the second loop of elf_add for one section
ZUncompressChdr ==
  /\ zpass = "chdr"
  /\ zout = <<>>
  /\ \E alloc_ok \in BOOLEAN : zout' = <<elf_uncompress_chdr(zsec, alloc_ok)>>
  /\ zerrs' = zerrs \o ZReports
  /\ UNCHANGED <<zsec, zpass, zn>>
  /\ UNCHANGED otherThanZlib

\* the loops go on to the next compressed section unless the call returned
\* 0 (goto fail); the zlib-gabi loop runs after the zlib-gnu loop
ZNextSection ==
  /\ zout # <<>>
  /\ zout[1].ret = 1
  /\ zn < MaxSections
  /\ \E pass \in {"zdebug", "chdr"} :
       /\ zpass = "chdr" => pass = "chdr"
       /\ zsec' \in ZSections(pass, zsec.elfsize)
       /\ zpass' = pass
  /\ zout' = <<>>
  /\ zn' = zn + 1
  /\ zerrs' = <<>>
  /\ UNCHANGED otherThanZlib

ZlibNext == ZUncompressZdebug \/ ZUncompressChdr \/ ZNextSection

\* every call of the inflater comes to 0 or 1
ZlibInsideModel == zout # <<>> => zout[1].ret \in {0, 1}

(***************************************************************************)
(* The symbol shards of a threaded state (elf.c: elf_add_syminfo_data,     *)
(* elf_syminfo; pecoff.c: coff_add_syminfo_data, coff_syminfo).  A shard   *)
(* is a struct elf_syminfo_data / coff_syminfo_data, named by a number     *)
(* from 1 on; 0 is NULL.  A pointer to a pointer (pp) is 0 for             *)
(* &state->syminfo_data and k for &shard k->next.  Each step of a thread   *)
(* is one access to shared memory together with the thread's own work      *)
(* around it.                                                              *)
(***************************************************************************)
Threads == 1..MaxThreads

Shards == 1..MaxShards

\* the addresses looked up
SymAddrs == {0, 1, 3}

\* (uintptr_t) -1, the address of pecoff.c's end of symbols marker; every
\* address of the model lies below it
COFF_END_ADDRESS == 2147483647

\* The function symbols of the files a shard is built from, as
\* elf_initialize_syminfo / coff_initialize_syminfo leave them: sorted by
\* address, and for PE/COFF followed by the end of symbols marker.
SymFiles ==
  << <<[name |-> "f", address |-> 1, size |-> 1]>>,
     <<[name |-> "a", address |-> 0, size |-> 1],
       [name |-> "b", address |-> 1, size |-> 2]>> >>

SymTable(format, file) ==
  IF format = "elf" THEN SymFiles[file]
  ELSE [k \in 1..Len(SymFiles[file]) |->
          [name |-> SymFiles[file][k].name, address |-> SymFiles[file][k].address]]
       \o <<[name |-> "", address |-> COFF_END_ADDRESS]>>

\* elf_symbol_search that takes the address behind the extent for inside it.
elf_symbol_search_closed(addr, symbols, entry) ==
  IF addr < symbols[entry].address THEN -1
  ELSE IF addr > symbols[entry].address + symbols[entry].size THEN 1
  ELSE 0

\* entry is the index of the entry compared with, from 1 on
elf_symbol_search(addr, symbols, entry) ==
  IF addr < symbols[entry].address THEN -1
  ELSE IF addr >= symbols[entry].address + symbols[entry].size THEN 1
  ELSE 0

coff_symbol_search(addr, symbols, entry) ==
  IF addr < symbols[entry].address THEN -1
  ELSE IF addr >= symbols[entry + 1].address THEN 1
  ELSE 0

\* bsearch over the entries l + 1 .. u of symbols: the index of an entry the
\* comparison function returns 0 for, or 0 (NULL)
RECURSIVE bsearch(_, _, _, _, _)
bsearch(format, addr, symbols, l, u) ==
  IF l >= u THEN 0
  ELSE LET idx == (l + u) \div 2
           c == IF format = "elf" THEN elf_symbol_search(addr, symbols, idx + 1)
                ELSE coff_symbol_search(addr, symbols, idx + 1)
       IN IF c < 0 THEN bsearch(format, addr, symbols, l, idx)
          ELSE IF c > 0 THEN bsearch(format, addr, symbols, idx + 1, u)
          ELSE idx + 1

\* the arguments of the callback call that ends elf_syminfo / coff_syminfo;
\* symname is <<>> for NULL
SymCallback(format, addr, symbols, sym) ==
  IF sym = 0 THEN [pc |-> addr, symname |-> <<>>, symval |-> 0, symsize |-> 0]
  ELSE [pc |-> addr, symname |-> <<symbols[sym].name>>,
        symval |-> symbols[sym].address,
        symsize |-> IF format = "elf" THEN symbols[sym].size ELSE 0]

\* a shard nobody wrote to yet
FreeShard == [st |-> "free", next |-> 0, symbols |-> <<>>, count |-> 0]

\* sdata->next = NULL; sdata->symbols = ...; sdata->count = ...;
InitializedShard(format, file) ==
  [st |-> "init", next |-> 0, symbols |-> SymTable(format, file),
   count |-> Len(SymFiles[file])]

\* backtrace_atomic_load_pointer (pp)
backtrace_atomic_load_pointer(head, heap, pp) ==
  IF pp = 0 THEN head ELSE heap[pp].next

\* the branch of elf_syminfo / coff_syminfo for a state that is not
\* threaded, from edata on: what a lookup that nothing interleaves with does
RECURSIVE syminfo_unthreaded(_, _, _, _)
syminfo_unthreaded(format, heap, edata, addr) ==
  IF edata = 0 THEN SymCallback(format, addr, <<>>, 0)
  ELSE LET sym == bsearch(format, addr, heap[edata].symbols, 0, heap[edata].count)
       IN IF sym # 0 THEN SymCallback(format, addr, heap[edata].symbols, sym)
          ELSE syminfo_unthreaded(format, heap, heap[edata].next, addr)

\* the shards of the list in order, following next from p for at most n steps
RECURSIVE SymChainFrom(_, _, _)
SymChainFrom(heap, p, n) ==
  IF p = 0 \/ n = 0 THEN <<>>
  ELSE <<p>> \o SymChainFrom(heap, heap[p].next, n - 1)

SymChain == SymChainFrom(symheap, symhead, MaxShards + 1)

\* if (__sync_bool_compare_and_swap (pp, NULL, edata)) break; with a plain
\* store in place of the compare and swap
elf_add_syminfo_data_store(head, heap, pp, edata) ==
  [ok |-> TRUE,
   head |-> IF pp = 0 THEN edata ELSE head,
   heap |-> IF pp = 0 THEN heap ELSE [heap EXCEPT ![pp].next = edata]]

\* if (__sync_bool_compare_and_swap (pp, NULL, edata)) break;
elf_add_syminfo_data_cas(head, heap, pp, edata) ==
  IF backtrace_atomic_load_pointer(head, heap, pp) # 0
    THEN [ok |-> FALSE, head |-> head, heap |-> heap]
  ELSE [ok |-> TRUE,
        head |-> IF pp = 0 THEN edata ELSE head,
        heap |-> IF pp = 0 THEN heap ELSE [heap EXCEPT ![pp].next = edata]]

IdleThread ==
  [pc |-> "idle", addr |-> 0, pp |-> 0, sdata |-> 0, edata |-> 0, lo |-> 0,
   args |-> SymCallback("elf", 0, <<>>, 0)]

SymInit ==
  /\ symfmt \in {"elf", "coff"}
  /\ symhead = 0
  /\ symheap = [k \in Shards |-> FreeShard]
  /\ thr = [t \in Threads |-> IdleThread]
  /\ symbroken = FALSE

SymIdle ==
  /\ symfmt = "none"
  /\ symhead = 0
  /\ symheap = <<>>
  /\ thr = <<>>
  /\ symbroken = FALSE

\* elf_add / coff_add: sdata = backtrace_alloc (state, sizeof *sdata, ...)
SymAlloc(t) ==
  /\ thr[t].pc = "idle"
  /\ \E k \in Shards :
       /\ symheap[k].st = "free"
       /\ \A j \in 1..(k - 1) : symheap[j].st # "free"
       /\ symheap' = [symheap EXCEPT ![k].st = "alloc"]
       /\ thr' = [thr EXCEPT ![t].pc = "init", ![t].sdata = k]
  /\ UNCHANGED <<symfmt, symhead, symbroken>>
  /\ UNCHANGED otherThanSym

\* elf_initialize_syminfo / coff_initialize_syminfo on the file's symbol
\* table, and the entry of elf_add_syminfo_data up to pp = &state->syminfo_data
SymInitialize(t) ==
  /\ thr[t].pc = "init"
  /\ \E file \in 1..Len(SymFiles) :
       symheap' = [symheap EXCEPT ![thr[t].sdata] = InitializedShard(symfmt, file)]
  /\ thr' = [thr EXCEPT ![t].pc = "walk", ![t].pp = 0]
  /\ UNCHANGED <<symfmt, symhead, symbroken>>
  /\ UNCHANGED otherThanSym

\* elf_add_syminfo_data, inner loop: p = backtrace_atomic_load_pointer (pp);
\* if (p == NULL) break; pp = &p->next;  lo is the length of the list at
\* the load that ended the walk.
SymAddLoad(t) ==
  /\ thr[t].pc = "walk"
  /\ LET p == backtrace_atomic_load_pointer(symhead, symheap, thr[t].pp)
     IN /\ thr' = IF p = 0
                    THEN [thr EXCEPT ![t].pc = "cas", ![t].lo = Len(SymChain)]
                  ELSE [thr EXCEPT ![t].pp = p]
        /\ symbroken' = (symbroken \/ (p # 0 /\ symheap[p].st # "init"))
  /\ UNCHANGED <<symfmt, symhead, symheap>>
  /\ UNCHANGED otherThanSym

\* elf_add_syminfo_data with the outer while (1) left whatever the compare
\* and swap returned
SymAdded_noretry(t, r) ==
  /\ symhead' = r.head
  /\ symheap' = r.heap
  /\ thr' = [thr EXCEPT ![t] = IdleThread]

\* elf_add_syminfo_data with the walk made once, before the outer while (1):
\* a compare and swap that failed is tried again on the same pointer
SymAdded_nowalk(t, r) ==
  /\ symhead' = r.head
  /\ symheap' = r.heap
  /\ thr' = IF r.ok THEN [thr EXCEPT ![t] = IdleThread] ELSE thr

\* what the compare and swap came to: the function returns and the thread is
\* free for its next call, or the outer loop starts over from
\* &state->syminfo_data; lo is then the length of the list the compare and
\* swap failed on
SymAdded(t, r) ==
  /\ symhead' = r.head
  /\ symheap' = r.heap
  /\ thr' = IF r.ok THEN [thr EXCEPT ![t] = IdleThread]
            ELSE [thr EXCEPT ![t].pc = "walk", ![t].pp = 0,
                             ![t].lo = Len(SymChain)]

SymAddCas(t) ==
  /\ thr[t].pc = "cas"
  /\ SymAdded(t, elf_add_syminfo_data_cas(symhead, symheap, thr[t].pp, thr[t].sdata))
  /\ UNCHANGED <<symfmt, symbroken>>
  /\ UNCHANGED otherThanSym

\* one turn of the loop once edata is loaded and searched: the callback is
\* called with the symbol or with NULL, or the loop goes on from &edata->next
SymLooked(t, addr, lo, edata, sym) ==
  IF edata = 0 \/ sym # 0
    THEN thr' = [thr EXCEPT ![t] =
                   [IdleThread EXCEPT !.pc = "returned", !.addr = addr, !.lo = lo,
                      !.edata = edata,
                      !.args = SymCallback(symfmt, addr,
                                           IF edata = 0 THEN <<>>
                                           ELSE symheap[edata].symbols,
                                           sym)]]
  ELSE thr' = [thr EXCEPT ![t].pc = "qload", ![t].addr = addr, ![t].lo = lo,
                          ![t].pp = edata]

\* edata = backtrace_atomic_load_pointer (pp); if (edata == NULL) break;
\* sym = bsearch (&addr, edata->symbols, edata->count, ...);
SymSearched(t, addr, lo, edata) ==
  /\ IF edata = 0 THEN SymLooked(t, addr, lo, 0, 0)
     ELSE SymLooked(t, addr, lo, edata,
                    bsearch(symfmt, addr, symheap[edata].symbols, 0,
                            symheap[edata].count))
  /\ symbroken' = (symbroken \/ (edata # 0 /\ symheap[edata].st # "init"))

\* elf_syminfo / coff_syminfo is called and makes the first turn of its
\* loop, from pp = &state->syminfo_data: nothing before the first load
\* touches shared memory.  lo is the length of the list at that load.
SymQuery(t) ==
  /\ thr[t].pc = "idle"
  /\ \E addr \in SymAddrs :
       SymSearched(t, addr, Len(SymChain),
                   backtrace_atomic_load_pointer(symhead, symheap, 0))
  /\ UNCHANGED <<symfmt, symhead, symheap>>
  /\ UNCHANGED otherThanSym

\* a further turn of the loop
SymQueryLoad(t) ==
  /\ thr[t].pc = "qload"
  /\ SymSearched(t, thr[t].addr, thr[t].lo,
                 backtrace_atomic_load_pointer(symhead, symheap, thr[t].pp))
  /\ UNCHANGED <<symfmt, symhead, symheap>>
  /\ UNCHANGED otherThanSym

\* the callback returned and with it the lookup
SymQueryReturn(t) ==
  /\ thr[t].pc = "returned"
  /\ thr' = [thr EXCEPT ![t] = IdleThread]
  /\ UNCHANGED <<symfmt, symhead, symheap, symbroken>>
  /\ UNCHANGED otherThanSym

SymNext ==
  \E t \in Threads :
    \/ SymAlloc(t)
    \/ SymInitialize(t)
    \/ SymAddLoad(t)
    \/ SymAddCas(t)
    \/ SymQuery(t)
    \/ SymQueryLoad(t)
    \/ SymQueryReturn(t)

(***************************************************************************)
(* backtrace_initialize and the queries on a state that is not threaded    *)
(* (elf.c, pecoff.c, macho.c).  elf_add / coff_add on a module is taken by *)
(* what it finds there: a symbol table or none, DWARF or none.  The        *)
(* modules are files that load; what makes elf_add / coff_add fail is the  *)
(* resolver's part above.  The caller of backtrace_initialize and of the   *)
(* two function pointers (fileline.c) is not in the repository's sources   *)
(* here: it stores the fileline function it is handed in                   *)
(* state->fileline_fn and calls state->fileline_fn / state->syminfo_fn     *)
(* once for a query.                                                       *)
(***************************************************************************)
\* what elf_add / coff_add finds in a module: sym is 0 for no symbol table
\* or the file of SymFiles its function symbols are; dwarf is whether
\* backtrace_dwarf_add registered debug info for it (for Mach-O: whether a
\* dSYM with the executable's UUID holds DWARF)
RegModule == [sym : 0..Len(SymFiles), dwarf : BOOLEAN]

RegModuleLists ==
  UNION {[1..n -> RegModule] : n \in 1..MaxModules}

\* for (pp = &state->syminfo_data; *pp != NULL; pp = &(*pp)->next) ;
RECURSIVE elf_add_syminfo_data_walk(_, _, _)
elf_add_syminfo_data_walk(head, heap, pp) ==
  IF backtrace_atomic_load_pointer(head, heap, pp) = 0 THEN pp
  ELSE elf_add_syminfo_data_walk(head, heap,
                                 backtrace_atomic_load_pointer(head, heap, pp))

\* *pp = edata; at the pp the walk ended with
elf_add_syminfo_data_assign(head, heap, pp, edata) ==
  [head |-> IF pp = 0 THEN edata ELSE head,
   heap |-> IF pp = 0 THEN heap ELSE [heap EXCEPT ![pp].next = edata]]

\* elf_add_syminfo_data / coff_add_syminfo_data, if (!state->threaded)
elf_add_syminfo_data_unthreaded(head, heap, edata) ==
  elf_add_syminfo_data_assign(head, heap,
                              elf_add_syminfo_data_walk(head, heap, 0), edata)

\* The part of elf_add / coff_add that a symbol table sets off: allocate
\* sdata, elf_initialize_syminfo / coff_initialize_syminfo, then
\* elf_add_syminfo_data / coff_add_syminfo_data.
RegAddSymbols(format, head, heap, file) ==
  elf_add_syminfo_data_unthreaded(
    head, Append(heap, InitializedShard(format, file)), Len(heap) + 1)

\* The locals of backtrace_initialize and the list, after elf_add on the
\* executable (i = 1) and phdr_callback's elf_add on the i-th module.
\* elf_add sets *found_sym = 0 on entry and phdr_callback hands it
\* pd->found_sym, so found_sym is what the last module had.
RECURSIVE RegElfModules(_, _)
RegElfModules(mods, i) ==
  LET r == IF i = 1
             THEN [head |-> 0, heap |-> <<>>, found_sym |-> FALSE,
                   found_dwarf |-> FALSE, fileline_fn |-> "elf_nodebug"]
           ELSE RegElfModules(mods, i - 1)
      l == IF mods[i].sym = 0 THEN [head |-> r.head, heap |-> r.heap]
           ELSE RegAddSymbols("elf", r.head, r.heap, mods[i].sym)
  IN [head |-> l.head, heap |-> l.heap,
      found_sym |-> mods[i].sym # 0,
      found_dwarf |-> IF i = 1 THEN mods[i].dwarf
                      ELSE r.found_dwarf \/ mods[i].dwarf,
      fileline_fn |-> IF mods[i].dwarf THEN "dwarf_fileline"
                      ELSE r.fileline_fn]

\* The same for pecoff.c: coff_add on the executable and then on each
\* module of the snapshot.  A module's fileline function is dropped, its
\* found_sym is or-ed in, and found_dwarf is what the last module had.
RECURSIVE RegCoffModules(_, _)
RegCoffModules(mods, i) ==
  LET r == IF i = 1
             THEN [head |-> 0, heap |-> <<>>, found_sym |-> FALSE,
                   found_dwarf |-> FALSE, fileline_fn |-> "NULL"]
           ELSE RegCoffModules(mods, i - 1)
      l == IF mods[i].sym = 0 THEN [head |-> r.head, heap |-> r.heap]
           ELSE RegAddSymbols("coff", r.head, r.heap, mods[i].sym)
  IN [head |-> l.head, heap |-> l.heap,
      found_sym |-> IF i = 1 THEN mods[i].sym # 0
                    ELSE r.found_sym \/ mods[i].sym # 0,
      found_dwarf |-> mods[i].dwarf,
      fileline_fn |-> IF i > 1 THEN r.fileline_fn
                      ELSE IF mods[i].dwarf THEN "dwarf_fileline"
                      ELSE "coff_nodebug"]

\* if (found_sym) state->syminfo_fn = elf_syminfo;
\* else if (state->syminfo_fn == NULL) state->syminfo_fn = elf_nosyms;
RegSyminfoFn(format, syminfo_fn, sym) ==
  IF sym THEN (IF format = "elf" THEN "elf_syminfo" ELSE "coff_syminfo")
  ELSE IF syminfo_fn = "NULL"
    THEN (IF format = "elf" THEN "elf_nosyms" ELSE "coff_nosyms")
  ELSE syminfo_fn

\* *fileline_fn as backtrace_initialize leaves it: the state's own unless
\* that is NULL or the no debug info function
RegFilelineFn(format, state_fn, local_fn) ==
  IF state_fn = "NULL" \/ state_fn = (IF format = "elf" THEN "elf_nodebug"
                                      ELSE "coff_nodebug")
    THEN local_fn
  ELSE state_fn

RegInit ==
  /\ regfmt \in {"elf", "coff", "macho"}
  /\ regmods \in (IF regfmt = "macho"
                    THEN {<<m>> : m \in {x \in RegModule : x.sym = 0}}
                  ELSE RegModuleLists)
  /\ regpc = "start"
  /\ regfileline = "NULL"
  /\ regsyminfo = "NULL"
  /\ reghead = 0
  /\ regheap = <<>>
  /\ regerrs = <<>>
  /\ regcalls = <<>>
  /\ regqueries = <<>>

RegIdle ==
  /\ regfmt = "none"
  /\ regmods = <<>>
  /\ regpc = "idle"
  /\ regfileline = "NULL"
  /\ regsyminfo = "NULL"
  /\ reghead = 0
  /\ regheap = <<>>
  /\ regerrs = <<>>
  /\ regcalls = <<>>
  /\ regqueries = <<>>

\* backtrace_initialize of elf.c and pecoff.c, and the caller's store of
\* the fileline function
RegInitialized(r) ==
  /\ reghead' = r.head
  /\ regheap' = r.heap
  /\ regsyminfo' = RegSyminfoFn(regfmt, regsyminfo, r.found_sym)
  /\ regfileline' = RegFilelineFn(regfmt, regfileline, r.fileline_fn)
  /\ regpc' = "ready"
  /\ UNCHANGED <<regfmt, regmods, regerrs, regcalls, regqueries>>
  /\ UNCHANGED otherThanReg

RegInitializeElf ==
  /\ regpc = "start"
  /\ regfmt = "elf"
  /\ RegInitialized(RegElfModules(regmods, Len(regmods)))

RegInitializeCoff ==
  /\ regpc = "start"
  /\ regfmt = "coff"
  /\ RegInitialized(RegCoffModules(regmods, Len(regmods)))

\* backtrace_initialize of macho.c from the dSYM search on: return 1 when
\* macho_try_dsym found the DWARF, or else report and return 0
RegInitializeMacho ==
  /\ regpc = "start"
  /\ regfmt = "macho"
  /\ IF regmods[1].dwarf
       THEN /\ regfileline' = "dwarf_fileline"
            /\ regpc' = "ready"
            /\ regerrs' = regerrs
     ELSE /\ regfileline' = regfileline
          /\ regpc' = "failed"
          /\ regerrs' = Append(regerrs,
               Err("executable file is missing an associated dSYM", -1))
  /\ UNCHANGED <<regfmt, regmods, regsyminfo, reghead, regheap, regcalls,
                 regqueries>>
  /\ UNCHANGED otherThanReg

\* elf_nodebug / coff_nodebug: the error_callback call
RegNodebug(fn) ==
  IF fn = "elf_nodebug" THEN <<Err("no debug info in ELF executable", -1)>>
  ELSE IF fn = "coff_nodebug"
    THEN <<Err("no debug info in PE/COFF executable (make sure to compile with -g)", -1)>>
  ELSE <<>>

\* elf_nosyms / coff_nosyms: the error_callback call
RegNosyms(fn) ==
  IF fn = "elf_nosyms" THEN <<Err("no symbol table in ELF executable", -1)>>
  ELSE IF fn = "coff_nosyms"
    THEN <<Err("no symbol table in PE/COFF executable", -1)>>
  ELSE <<>>

\* the callback calls of state->syminfo_fn (state, addr, callback, ...)
RegSyminfoCalls(fn, head, heap, addr) ==
  IF fn = "elf_syminfo" THEN <<syminfo_unthreaded("elf", heap, head, addr)>>
  ELSE IF fn = "coff_syminfo"
    THEN <<syminfo_unthreaded("coff", heap, head, addr)>>
  ELSE <<>>

\* A file/line query: state->fileline_fn (state, pc, callback, ...).  What
\* dwarf_fileline (dwarf.c) does with the callback is outside the model.
RegPcinfo(pc) ==
  /\ regpc = "ready"
  /\ Len(regqueries) < MaxQueries
  /\ regerrs' = regerrs \o RegNodebug(regfileline)
  /\ regcalls' = <<>>
  /\ regqueries' = Append(regqueries, [kind |-> "pcinfo", addr |-> pc])
  /\ UNCHANGED <<regfmt, regmods, regpc, regfileline, regsyminfo, reghead,
                 regheap>>
  /\ UNCHANGED otherThanReg

\* A symbol query: state->syminfo_fn (state, addr, callback, ...).  macho.c
\* sets no syminfo_fn; symbol queries on its states are outside the model.
RegSyminfo(addr) ==
  /\ regpc = "ready"
  /\ regsyminfo # "NULL"
  /\ Len(regqueries) < MaxQueries
  /\ regerrs' = regerrs \o RegNosyms(regsyminfo)
  /\ regcalls' = RegSyminfoCalls(regsyminfo, reghead, regheap, addr)
  /\ regqueries' = Append(regqueries, [kind |-> "syminfo", addr |-> addr])
  /\ UNCHANGED <<regfmt, regmods, regpc, regfileline, regsyminfo, reghead,
                 regheap>>
  /\ UNCHANGED otherThanReg

RegNext ==
  \/ RegInitializeElf
  \/ RegInitializeCoff
  \/ RegInitializeMacho
  \/ \E pc \in SymAddrs : RegPcinfo(pc)
  \/ \E addr \in SymAddrs : RegSyminfo(addr)

(***************************************************************************)
(* elf_crc32 and coff_crc32 as functions of a byte string (elf.c,          *)
(* pecoff.c), next to the CRC-32 they are to compute, taken a bit at a     *)
(* time.                                                                   *)
(***************************************************************************)
\* The byte strings: every string of at most one byte, which between them
\* index every entry of the table, and the longer strings over a few bytes.
CrcStrings ==
  {<<>>} \cup {<<b>> : b \in 0..255}
  \cup UNION {[1..n -> {0, 1, 128, 255}] : n \in 2..MaxCrcLen}

\* n steps of the shift register with the reflected polynomial 0xEDB88320
RECURSIVE Crc32ReferenceBits(_, _)
Crc32ReferenceBits(crc, n) ==
  IF n = 0 THEN crc
  ELSE Crc32ReferenceBits(IF crc[2] % 2 = 1
                            THEN Xor32(Shr1(crc), <<60856, 33568>>)
                          ELSE Shr1(crc),
                          n - 1)

RECURSIVE Crc32ReferenceBytes(_, _, _)
Crc32ReferenceBytes(crc, buf, i) ==
  IF i > Len(buf) THEN crc
  ELSE Crc32ReferenceBytes(
         Crc32ReferenceBits(Xor32(crc, <<0, buf[i]>>), 8), buf, i + 1)

\* The GNU debuglink CRC of buf: the register starts as the complement of 0
\* and its complement is the result.
Crc32Reference(buf) ==
  Not32(Crc32ReferenceBytes(Not32(Zero32), buf, 1))

CrcInit ==
  /\ crcbuf \in CrcStrings
  /\ crcout = [elf |-> <<>>, coff |-> <<>>]

CrcIdle ==
  /\ crcbuf = <<>>
  /\ crcout = <<>>

\* elf_crc32 (0, buf, len)
CrcElf ==
  /\ crcout # <<>>
  /\ crcout.elf = <<>>
  /\ crcout' = [crcout EXCEPT !.elf = <<elf_crc32(Zero32, crcbuf)>>]
  /\ UNCHANGED crcbuf
  /\ UNCHANGED otherThanCrc

\* coff_crc32 (0, buf, len)
CrcCoff ==
  /\ crcout # <<>>
  /\ crcout.coff = <<>>
  /\ crcout' = [crcout EXCEPT !.coff = <<coff_crc32(Zero32, crcbuf)>>]
  /\ UNCHANGED crcbuf
  /\ UNCHANGED otherThanCrc

CrcNext == CrcElf \/ CrcCoff

(***************************************************************************)
(* The XZ decoder on reference streams.  Each stream is what liblzma's     *)
(* encoder (xz 5) makes of the payload with the filters and the check      *)
(* named.  The caller hands the decoder the whole stream, as               *)
(* elf_uncompress_lzma_gnu_debugdata does, and a new output buffer each    *)
(* time the one at hand is full.                                           *)
(***************************************************************************)
XzReference ==
  {
    \* the LZMA2 filter alone, CRC-32: one LZMA chunk, a literal and a repeated match
    [payload |->
       <<97, 97, 97, 97, 97, 97, 97, 97, 97, 97, 97, 97, 97, 97, 97, 97,
         97, 97, 97, 97, 97, 97, 97, 97>>,
     stream |->
       <<253, 55, 122, 88, 90, 0, 0, 1, 105, 34, 222, 54, 2, 0, 33, 1, 22,
         0, 0, 0, 116, 47, 229, 163, 224, 0, 23, 0, 6, 93, 0, 48, 238, 6,
         0, 0, 0, 0, 0, 0, 132, 122, 2, 230, 0, 1, 30, 24, 162, 18, 171,
         231, 144, 66, 153, 13, 1, 0, 0, 0, 0, 1, 89, 90>>],
    \* LZMA2 alone, CRC-64: literals, matches and repeated matches
    [payload |->
       <<97, 98, 99, 97, 98, 99, 97, 98, 100, 97, 98, 99, 88, 97, 98, 99,
         97, 98, 100, 89, 89, 97, 98, 99, 97, 98, 100, 97, 98, 99, 97, 98,
         99, 90>>,
     stream |->
       <<253, 55, 122, 88, 90, 0, 0, 4, 230, 214, 180, 70, 2, 0, 33, 1, 22,
         0, 0, 0, 116, 47, 229, 163, 224, 0, 33, 0, 20, 93, 0, 48, 152,
         136, 165, 131, 109, 198, 123, 205, 148, 132, 21, 29, 64, 232, 59,
         54, 211, 227, 73, 0, 146, 152, 100, 94, 17, 236, 25, 58, 0, 1, 48,
         34, 60, 194, 160, 42, 31, 182, 243, 125, 1, 0, 0, 0, 0, 4, 89, 90>>],
    \* the x86 BCJ filter before LZMA2, CRC-32: one LZMA chunk, calls and jumps
    [payload |->
       <<85, 72, 137, 229, 232, 16, 0, 0, 0, 144, 232, 11, 0, 0, 0, 233,
         240, 255, 255, 255, 15, 132, 232, 232, 0, 0, 0, 0, 195, 232, 255,
         255, 255, 0, 232, 232, 232, 232, 0, 0, 0, 255, 144, 144>>,
     stream |->
       <<253, 55, 122, 88, 90, 0, 0, 1, 105, 34, 222, 54, 2, 1, 4, 0, 33,
         1, 22, 0, 13, 134, 53, 31, 224, 0, 43, 0, 42, 93, 0, 42, 146, 13,
         164, 228, 190, 147, 207, 175, 85, 238, 47, 26, 19, 26, 92, 3, 133,
         40, 196, 79, 85, 235, 192, 112, 5, 122, 113, 88, 15, 112, 209,
         196, 38, 190, 44, 166, 168, 159, 86, 160, 0, 0, 0, 0, 231, 121,
         206, 70, 0, 1, 66, 44, 79, 244, 17, 208, 144, 66, 153, 13, 1, 0,
         0, 0, 0, 1, 89, 90>>],
    \* x86 BCJ before LZMA2, CRC-64: one uncompressed chunk
    [payload |->
       <<232, 0, 0, 0, 0, 232, 232, 0, 0, 255, 0, 255, 233, 18, 52, 86,
         255, 232, 255, 0, 232, 1, 0, 0, 255, 195>>,
     stream |->
       <<253, 55, 122, 88, 90, 0, 0, 4, 230, 214, 180, 70, 2, 1, 4, 0, 33,
         1, 22, 0, 13, 134, 53, 31, 1, 0, 25, 232, 5, 0, 0, 0, 232, 242, 0,
         0, 255, 0, 255, 233, 35, 52, 86, 255, 232, 255, 0, 232, 26, 0, 0,
         255, 195, 0, 0, 0, 68, 190, 112, 129, 185, 74, 137, 98, 0, 1, 50,
         26, 32, 24, 148, 48, 31, 182, 243, 125, 1, 0, 0, 0, 0, 4, 89, 90>>],
    \* LZMA2 alone, CRC-64: one uncompressed chunk
    [payload |->
       <<7, 200, 13, 99, 1>>,
     stream |->
       <<253, 55, 122, 88, 90, 0, 0, 4, 230, 214, 180, 70, 2, 0, 33, 1, 22,
         0, 0, 0, 116, 47, 229, 163, 1, 0, 4, 7, 200, 13, 99, 1, 0, 0, 0,
         0, 26, 45, 235, 56, 199, 87, 84, 112, 0, 1, 29, 5, 184, 45, 128,
         175, 31, 182, 243, 125, 1, 0, 0, 0, 0, 4, 89, 90>>],
    \* x86 BCJ before LZMA2 with lc = 0, lp = 2, pb = 0, CRC-32
    [payload |->
       <<97, 98, 99, 97, 98, 99, 97, 98, 100, 97, 98, 99, 88, 97, 98, 99,
         97, 98, 100, 89, 89, 97, 98, 99, 97, 98, 100, 97, 98, 99, 97, 98,
         99, 90>>,
     stream |->
       <<253, 55, 122, 88, 90, 0, 0, 1, 105, 34, 222, 54, 2, 1, 4, 0, 33,
         1, 22, 0, 13, 134, 53, 31, 224, 0, 33, 0, 20, 18, 0, 48, 153, 77,
         160, 154, 54, 120, 87, 43, 38, 121, 96, 164, 109, 170, 77, 140,
         122, 128, 0, 0, 21, 216, 2, 11, 0, 1, 44, 34, 97, 159, 215, 204,
         144, 66, 153, 13, 1, 0, 0, 0, 0, 1, 89, 90>>],
    \* the empty payload: a stream without blocks
    [payload |->
       <<>>,
     stream |->
       <<253, 55, 122, 88, 90, 0, 0, 1, 105, 34, 222, 54, 0, 0, 0, 0, 28,
         223, 68, 33, 144, 66, 153, 13, 1, 0, 0, 0, 0, 1, 89, 90>>]
  }

MaxRefOut == 2

\* sizeof of the temp.buf of struct xz_dec_bcj
BCJ_TEMP_SIZE == 16

\* The sizes of the output buffers: a few bytes, the size of the BCJ
\* filter's own buffer, and the size the caller in elf.c uses.
RefOutSizes(in) ==
  (1..MaxRefOut)
    \cup {BCJ_TEMP_SIZE, Len(in) * ELF_LZMA_UNCOMPRESSOR_GROW_FACTOR}

XzRefInit ==
  \E ref \in XzReference :
    \E n \in RefOutSizes(ref.stream) :
      /\ rxref = ref
      /\ rxs = xz_dec_init(TRUE)
      /\ rxb = [in |-> ref.stream, in_pos |-> 0, in_size |-> Len(ref.stream),
                out |-> <<>>, out_pos |-> 0, out_size |-> n]
      /\ rxout = <<>>
      /\ rxres = <<>>

XzRefIdle ==
  /\ rxref = <<>>
  /\ rxs = <<>>
  /\ rxb = <<>>
  /\ rxout = <<>>
  /\ rxres = <<>>

\* every output byte the decoder produced so far, in order
XzRefOutput == rxout \o SubSeq(rxb.out, 1, rxb.out_pos)

\* The caller after xz_dec_run returned r: a full output buffer is put
\* aside and a new one takes its place.
XzRefReturned(r) ==
  /\ rxs' = r.s
  /\ rxres' = <<r.ret>>
  /\ IF r.ret = "XZ_OK" /\ r.b.out_pos = r.b.out_size
       THEN /\ rxout' = rxout \o SubSeq(r.b.out, 1, r.b.out_pos)
            /\ \E n \in RefOutSizes(r.b.in) :
                 rxb' = [r.b EXCEPT !.out = <<>>, !.out_pos = 0,
                                    !.out_size = n]
     ELSE /\ rxout' = rxout
          /\ rxb' = r.b
  /\ UNCHANGED rxref

\* One call of xz_dec_run, made while the decoder returns XZ_OK.
XzRefRun ==
  /\ rxres \in {<<>>, <<"XZ_OK">>}
  /\ XzRefReturned(xz_dec_run(rxs, rxb))
  /\ UNCHANGED otherThanXzRef

XzRefNext == XzRefRun

(***************************************************************************)
(* The symlink loop of elf_find_debugfile_by_debuglink (elf.c), one system *)
(* call a step, on file systems whose links may name each other.           *)
(***************************************************************************)
\* the paths that exist or not: two names in a directory, two without one
LnPaths ==
  {<<"/", "d", "/", "a">>, <<"/", "d", "/", "b">>, <<"a">>, <<"b">>}

\* what a symlink may hold: a relative or an absolute name
LnTargets == {<<"a">>, <<"b">>, <<"/", "d", "/", "a">>, <<"/", "d", "/", "b">>}

\* what is at a path: nothing, a regular file, or a symlink
LnEntries ==
  {<<>>, RegularFile(<<>>, TRUE, NoImage)} \cup {Symlink(t) : t \in LnTargets}

LnInit ==
  /\ lnfs \in [LnPaths -> LnEntries]
  /\ lnname \in LnPaths
  /\ lnpc = "lstat"

LnIdle ==
  /\ lnfs = <<>>
  /\ lnname = <<>>
  /\ lnpc = "idle"

\* while (elf_is_symlink (filename)): the lstat
LnIsSymlink ==
  /\ lnpc = "lstat"
  /\ lnpc' = IF elf_is_symlink(lnfs, lnname) THEN "readlink" ELSE "probes"
  /\ UNCHANGED <<lnfs, lnname>>
  /\ UNCHANGED otherThanLn

\* the body of the loop: elf_readlink returns NULL when backtrace_alloc
\* does (break), and the copy of a relative target behind the directory of
\* filename needs a second allocation (goto done)
LnReadlink ==
  /\ lnpc = "readlink"
  /\ \E alloc_ok \in BOOLEAN, c_ok \in BOOLEAN :
       LET new_buf == elf_readlink(lnfs, lnname)
           copies == /\ ~(Len(new_buf) > 0 /\ new_buf[1] = "/")
                     /\ strrchr_slash(lnname) # 0
       IN IF ~alloc_ok THEN lnpc' = "probes" /\ lnname' = lnname
          ELSE IF copies /\ ~c_ok THEN lnpc' = "done" /\ lnname' = lnname
          ELSE lnpc' = "lstat" /\ lnname' = SymlinkTarget(lnname, new_buf)
  /\ UNCHANGED lnfs
  /\ UNCHANGED otherThanLn

LnNext == LnIsSymlink \/ LnReadlink

(***************************************************************************)
(* The debug-section views of macho_try_dwarf, elf_add and coff_add: which *)
(* views are mapped, which section data point into them, which are         *)
(* released, and what backtrace_dwarf_add is given.                        *)
(***************************************************************************)
MaxDebugSections == 2

VwSections == 1..MaxDebugSections

\* What a data pointer refers to: nothing, the single view, the view of one
\* section, or the heap block a section was uncompressed into.
VwNull == <<"null", 0>>
VwDebugView == <<"debug_view", 0>>
VwSplitView(i) == <<"split_debug_view", i>>
VwHeap(i) == <<"uncompressed", i>>

\* The files: per section .debug_X absent, plain or SHF_COMPRESSED, whether
\* .zdebug_X is present, how its decompression ends (done, given up with 1,
\* failed with 0), whether the sections are read one by one, and whether the
\* view and backtrace_dwarf_add succeed.  Mach-O and PE/COFF have neither
\* compressed sections nor separate views.
VwInputs ==
  {w \in [fn : {"macho_try_dwarf", "elf_add", "coff_add"},
          secs : [VwSections -> {"none", "plain", "chdr"}],
          zsecs : [VwSections -> BOOLEAN],
          inflate : [VwSections -> {"ok", "soft", "nomem"}],
          big : BOOLEAN, view_ok : BOOLEAN, dwarf_ok : BOOLEAN] :
     /\ \A i \in VwSections :
          (w.secs[i] = "plain" \/ (w.secs[i] = "none" /\ ~w.zsecs[i])) =>
            w.inflate[i] = "ok"
     /\ w.fn # "elf_add" =>
          /\ ~w.big
          /\ \A i \in VwSections : w.secs[i] # "chdr" /\ ~w.zsecs[i]}

VwInit ==
  /\ vwin \in VwInputs
  /\ vwpc = "get_view"
  /\ vwi = 1
  /\ vwsec = [i \in VwSections |->
                [size |-> vwin.secs[i] # "none",
                 compressed |-> vwin.secs[i] = "chdr", data |-> VwNull]]
  /\ vwz = [i \in VwSections |-> [size |-> vwin.zsecs[i], data |-> VwNull]]
  /\ vwvalid = {}
  /\ vwreleased = {}
  /\ vwusing = 0
  /\ vwreg = <<>>
  /\ vwret = <<>>

VwIdle ==
  /\ vwin = <<>> /\ vwpc = "idle" /\ vwi = 0 /\ vwsec = <<>> /\ vwz = <<>>
  /\ vwvalid = {} /\ vwreleased = {} /\ vwusing = 0 /\ vwreg = <<>>
  /\ vwret = <<>>

\* The exit taken on an error: fail in elf_add and coff_add, end in
\* macho_try_dwarf.
VwErrorExit == IF vwin.fn = "macho_try_dwarf" THEN "end" ELSE "fail"

\* From the computed offsets to the views: return 1 (goto end in
\* macho_try_dwarf) when there is no debug section, one view for all
\* sections, or in elf_add one view per section when they are far apart.
VwGetView ==
  /\ vwpc = "get_view"
  /\ LET present(i) == vwsec[i].size \/ vwz[i].size
     IN IF \A i \in VwSections : ~present(i)
          THEN /\ vwpc' = IF vwin.fn = "macho_try_dwarf" THEN "end" ELSE "done"
               /\ vwret' = IF vwin.fn = "macho_try_dwarf" THEN <<>> ELSE <<1>>
               /\ UNCHANGED <<vwsec, vwz, vwvalid>>
        ELSE IF ~vwin.view_ok
          THEN /\ vwpc' = VwErrorExit
               /\ UNCHANGED <<vwsec, vwz, vwvalid, vwret>>
        ELSE IF vwin.big
          THEN /\ vwvalid' = {VwSplitView(i) : i \in {j \in VwSections : present(j)}}
               /\ vwsec' = [i \in VwSections |->
                    IF vwsec[i].size
                      THEN [vwsec[i] EXCEPT !.data = VwSplitView(i)]
                      ELSE vwsec[i]]
               /\ vwz' = [i \in VwSections |->
                    IF ~vwsec[i].size /\ vwz[i].size
                      THEN [vwz[i] EXCEPT !.data = VwSplitView(i)]
                      ELSE vwz[i]]
               /\ vwpc' = "assign"
               /\ UNCHANGED vwret
          ELSE /\ vwvalid' = {VwDebugView}
               /\ vwpc' = "assign"
               /\ UNCHANGED <<vwsec, vwz, vwret>>
  /\ UNCHANGED <<vwin, vwi, vwreleased, vwusing, vwreg>>
  /\ UNCHANGED otherThanVw

\* The data pointers into the single view, and in elf_add the count
\* using_debug_view of the sections that use it.
VwAssign ==
  /\ vwpc = "assign"
  /\ IF VwDebugView \in vwvalid
       THEN /\ vwsec' = [i \in VwSections |->
                 [vwsec[i] EXCEPT !.data = IF vwsec[i].size THEN VwDebugView
                                           ELSE VwNull]]
            /\ vwz' = [i \in VwSections |->
                 [vwz[i] EXCEPT !.data = IF vwz[i].size THEN VwDebugView
                                         ELSE VwNull]]
            /\ vwusing' = Cardinality({i \in VwSections : vwsec[i].size})
       ELSE UNCHANGED <<vwsec, vwz, vwusing>>
  /\ vwpc' = IF vwin.fn = "elf_add" THEN "zdebug" ELSE "dwarf_add"
  /\ vwi' = 1
  /\ UNCHANGED <<vwin, vwvalid, vwreleased, vwreg, vwret>>
  /\ UNCHANGED otherThanVw

\* What elf_uncompress_zdebug / elf_uncompress_chdr leave in sections[i]:
\* the heap block, or NULL and size 0 when they give up and return 1.
VwUncompressed(i) ==
  IF vwin.inflate[i] = "ok"
    THEN [size |-> TRUE, compressed |-> FALSE, data |-> VwHeap(i)]
    ELSE [size |-> FALSE, compressed |-> FALSE, data |-> VwNull]

\* One iteration of the loop over the .zdebug_X sections.
VwZdebug ==
  /\ vwpc = "zdebug"
  /\ IF vwi > MaxDebugSections
       THEN /\ vwpc' = "chdr" /\ vwi' = 1
            /\ UNCHANGED <<vwsec, vwvalid, vwreleased>>
     ELSE IF ~(~vwsec[vwi].size /\ vwz[vwi].size)
       THEN /\ vwi' = vwi + 1
            /\ UNCHANGED <<vwpc, vwsec, vwvalid, vwreleased>>
     ELSE IF vwin.inflate[vwi] = "nomem"
       THEN /\ vwpc' = "fail"
            /\ UNCHANGED <<vwi, vwsec, vwvalid, vwreleased>>
     ELSE /\ vwsec' = [vwsec EXCEPT ![vwi] = VwUncompressed(vwi)]
          /\ IF VwSplitView(vwi) \in vwvalid
               THEN /\ vwreleased' = vwreleased \cup {VwSplitView(vwi)}
                    /\ vwvalid' = vwvalid \ {VwSplitView(vwi)}
               ELSE UNCHANGED <<vwvalid, vwreleased>>
          /\ vwi' = vwi + 1
          /\ UNCHANGED vwpc
  /\ UNCHANGED <<vwin, vwz, vwusing, vwreg, vwret>>
  /\ UNCHANGED otherThanVw

\* One iteration of the loop over the SHF_COMPRESSED sections.
VwChdr ==
  /\ vwpc = "chdr"
  /\ IF vwi > MaxDebugSections
       THEN /\ vwpc' = "release" /\ vwi' = 1
            /\ UNCHANGED <<vwsec, vwvalid, vwreleased, vwusing>>
     ELSE IF ~vwsec[vwi].size \/ ~vwsec[vwi].compressed
       THEN /\ vwi' = vwi + 1
            /\ UNCHANGED <<vwpc, vwsec, vwvalid, vwreleased, vwusing>>
     ELSE IF vwin.inflate[vwi] = "nomem"
       THEN /\ vwpc' = "fail"
            /\ UNCHANGED <<vwi, vwsec, vwvalid, vwreleased, vwusing>>
     ELSE /\ vwsec' = [vwsec EXCEPT ![vwi] = VwUncompressed(vwi)]
          /\ IF VwDebugView \in vwvalid
               THEN /\ vwusing' = vwusing - 1
                    /\ UNCHANGED <<vwvalid, vwreleased>>
               ELSE IF VwSplitView(vwi) \in vwvalid
                 THEN /\ vwreleased' = vwreleased \cup {VwSplitView(vwi)}
                      /\ vwvalid' = vwvalid \ {VwSplitView(vwi)}
                      /\ UNCHANGED vwusing
                 ELSE UNCHANGED <<vwvalid, vwreleased, vwusing>>
          /\ vwi' = vwi + 1
          /\ UNCHANGED vwpc
  /\ UNCHANGED <<vwin, vwz, vwreg, vwret>>
  /\ UNCHANGED otherThanVw

\* if (debug_view_valid && using_debug_view == 0) release the single view.
VwRelease ==
  /\ vwpc = "release"
  /\ IF VwDebugView \in vwvalid /\ vwusing = 0
       THEN /\ vwreleased' = vwreleased \cup {VwDebugView}
            /\ vwvalid' = vwvalid \ {VwDebugView}
       ELSE UNCHANGED <<vwvalid, vwreleased>>
  /\ vwpc' = "dwarf_add"
  /\ UNCHANGED <<vwin, vwi, vwsec, vwz, vwusing, vwreg, vwret>>
  /\ UNCHANGED otherThanVw

\* backtrace_dwarf_add on the data and size of every section; return 1 in
\* elf_add and coff_add, ret = 1 and on to end in macho_try_dwarf.
VwDwarfAdd ==
  /\ vwpc = "dwarf_add"
  /\ IF ~vwin.dwarf_ok
       THEN /\ vwpc' = VwErrorExit
            /\ UNCHANGED <<vwreg, vwret>>
       ELSE /\ vwreg' = <<[i \in VwSections |->
                             [data |-> vwsec[i].data, size |-> vwsec[i].size]]>>
            /\ IF vwin.fn = "macho_try_dwarf"
                 THEN vwpc' = "end" /\ vwret' = <<1>>
                 ELSE vwpc' = "done" /\ vwret' = <<1>>
  /\ UNCHANGED <<vwin, vwi, vwsec, vwz, vwvalid, vwreleased, vwusing>>
  /\ UNCHANGED otherThanVw

\* fail: in elf_add and coff_add: release every view still valid, return 0.
VwFail ==
  /\ vwpc = "fail"
  /\ vwreleased' = vwreleased \cup vwvalid
  /\ vwpc' = "done"
  /\ vwret' = <<0>>
  /\ UNCHANGED <<vwin, vwi, vwsec, vwz, vwvalid, vwusing, vwreg>>
  /\ UNCHANGED otherThanVw

\* end: in macho_try_dwarf: if (dwarf_view_valid) release the view;
\* return ret.  Nothing clears dwarf_view_valid.
VwEnd ==
  /\ vwpc = "end"
  /\ vwreleased' = vwreleased \cup vwvalid
  /\ vwpc' = "done"
  /\ vwret' = IF vwret = <<>> THEN <<0>> ELSE vwret
  /\ UNCHANGED <<vwin, vwi, vwsec, vwz, vwvalid, vwusing, vwreg>>
  /\ UNCHANGED otherThanVw

VwNext ==
  \/ VwGetView
  \/ VwAssign
  \/ VwZdebug
  \/ VwChdr
  \/ VwRelease
  \/ VwDwarfAdd
  \/ VwFail
  \/ VwEnd

(***************************************************************************)
(* backtrace_initialize of elf.c: elf_add on the executable, then          *)
(* phdr_callback on every object dl_iterate_phdr reports.                   *)
(***************************************************************************)
MaxPhdr == 3

PH_EXE == <<"exe">>
PH_LIB == <<"lib">>

\* An ELF file as elf_add sees it.
PhImages == [e_type : {"ET_EXEC", "ET_DYN"}, magic_ok : BOOLEAN, body_ok : BOOLEAN]

\* An object dl_iterate_phdr reports: dlpi_name (<<>> is NULL or ""),
\* whether backtrace_open of it succeeds, and the file.  dl_iterate_phdr
\* reports the main program and every loaded object, so at least one.
PhInfos ==
  {o \in [dlpi_name : {<<>>, PH_LIB}, opens : BOOLEAN, img : PhImages] :
     /\ o.dlpi_name = <<>> => o.opens
     /\ o.img.e_type = "ET_DYN"
     /\ ~o.opens => (o.img.magic_ok /\ o.img.body_ok)}

RECURSIVE PhLists(_)
PhLists(n) ==
  IF n = 0 THEN {<<>>}
  ELSE PhLists(n - 1) \cup
         {Append(l, o) : l \in {x \in PhLists(n - 1) : Len(x) = n - 1},
                         o \in PhInfos}

\* elf_add from its entry to the return, for the question of what becomes
\* of the descriptor: 0 through fail, which closes it; -1 for an ET_DYN
\* executable, before anything is read but the header; 1 after the shard
\* is registered and the descriptor closed.
elf_add_outcome(img, exe) ==
  IF ~img.magic_ok THEN [ret |-> 0, closes |-> 1, shard |-> FALSE]
  ELSE IF exe /\ img.e_type = "ET_DYN"
    THEN [ret |-> -1, closes |-> 0, shard |-> FALSE]
  ELSE IF ~img.body_ok THEN [ret |-> 0, closes |-> 1, shard |-> FALSE]
  ELSE [ret |-> 1, closes |-> 1, shard |-> TRUE]

PhClose(fds, fd) == [fds EXCEPT ![fd].closes = @ + 1]

\* elf_add called on descriptor fd of fds.
PhElfAdd(fds, fd, img, exe) ==
  [fds EXCEPT ![fd].closes = @ + elf_add_outcome(img, exe).closes,
              ![fd].adds = @ + 1]

PhInit ==
  /\ phprim \in PhImages
  /\ phlist \in {l \in PhLists(MaxPhdr) : l # <<>>}
  /\ phpc = "elf_add"
  /\ phi = 1
  /\ phpd = [exe_descriptor |-> -1]
  /\ phfds = <<[path |-> PH_EXE, closes |-> 0, adds |-> 0]>>
  /\ phshards = <<>>
  /\ phret = <<>>
  /\ phevents = <<>>

PhIdle ==
  /\ phprim = <<>> /\ phlist = <<>> /\ phpc = "idle" /\ phi = 0
  /\ phpd = <<>> /\ phfds = <<>> /\ phshards = <<>> /\ phret = <<>>
  /\ phevents = <<>>

\* backtrace_initialize up to dl_iterate_phdr: ret = elf_add (..., exe = 1);
\* if (!ret) return 0; pd.exe_descriptor = ret < 0 ? descriptor : -1.
PhInitialize ==
  /\ phpc = "elf_add"
  /\ LET r == elf_add_outcome(phprim, TRUE)
     IN /\ phret' = <<r.ret>>
        /\ phfds' = PhElfAdd(phfds, 1, phprim, TRUE)
        /\ phshards' = IF r.shard THEN Append(phshards, PH_EXE) ELSE phshards
        /\ phpc' = IF r.ret = 0 THEN "done" ELSE "iterate"
        /\ phpd' = [exe_descriptor |-> IF r.ret < 0 THEN 1 ELSE -1]
  /\ UNCHANGED <<phprim, phlist, phi, phevents>>
  /\ UNCHANGED otherThanPh

\* phdr_callback without pd->exe_descriptor = -1 after the close.
phdr_callback_keep(pd, info, fds) ==
  IF info.dlpi_name = <<>>
    THEN IF pd.exe_descriptor = -1
           THEN [pd |-> pd, fds |-> fds, descriptor |-> -1, events |-> <<>>]
         ELSE [pd |-> [pd EXCEPT !.exe_descriptor = -1], fds |-> fds,
               descriptor |-> pd.exe_descriptor, events |-> <<"handed">>]
  ELSE LET closing == pd.exe_descriptor # -1
           fds1 == IF closing THEN PhClose(fds, pd.exe_descriptor) ELSE fds
           fds2 == IF info.opens
                     THEN Append(fds1, [path |-> info.dlpi_name, closes |-> 0,
                                        adds |-> 0])
                   ELSE fds1
       IN [pd |-> pd, fds |-> fds2,
           descriptor |-> IF info.opens THEN Len(fds2) ELSE -1,
           events |-> IF closing THEN <<"closed">> ELSE <<>>]

\* phdr_callback up to its call of elf_add: what it does with
\* pd->exe_descriptor, and the descriptor it goes on with (-1: return 0).
phdr_callback(pd, info, fds) ==
  IF info.dlpi_name = <<>>
    THEN IF pd.exe_descriptor = -1
           THEN [pd |-> pd, fds |-> fds, descriptor |-> -1, events |-> <<>>]
         ELSE [pd |-> [pd EXCEPT !.exe_descriptor = -1], fds |-> fds,
               descriptor |-> pd.exe_descriptor, events |-> <<"handed">>]
  ELSE LET closing == pd.exe_descriptor # -1
           fds1 == IF closing THEN PhClose(fds, pd.exe_descriptor) ELSE fds
           fds2 == IF info.opens
                     THEN Append(fds1, [path |-> info.dlpi_name, closes |-> 0,
                                        adds |-> 0])
                   ELSE fds1
       IN [pd |-> [pd EXCEPT !.exe_descriptor = -1], fds |-> fds2,
           descriptor |-> IF info.opens THEN Len(fds2) ELSE -1,
           events |-> IF closing THEN <<"closed">> ELSE <<>>]

\* One call of phdr_callback by dl_iterate_phdr, its elf_add included.
PhCallback ==
  /\ phpc = "iterate"
  /\ phi <= Len(phlist)
  /\ LET info == phlist[phi]
         c == phdr_callback(phpd, info, phfds)
         img == IF info.dlpi_name = <<>> THEN phprim ELSE info.img
         r == elf_add_outcome(img, FALSE)
     IN /\ phpd' = c.pd
        /\ phevents' = phevents \o c.events
        /\ phfds' = IF c.descriptor = -1 THEN c.fds
                    ELSE PhElfAdd(c.fds, c.descriptor, img, FALSE)
        /\ phshards' = IF c.descriptor # -1 /\ r.shard
                         THEN Append(phshards, phfds'[c.descriptor].path)
                       ELSE phshards
  /\ phi' = phi + 1
  /\ UNCHANGED <<phprim, phlist, phpc, phret>>
  /\ UNCHANGED otherThanPh

\* dl_iterate_phdr returns; backtrace_initialize stores the functions and
\* returns 1.
PhFinish ==
  /\ phpc = "iterate"
  /\ phi > Len(phlist)
  /\ phpc' = "done"
  /\ UNCHANGED <<phprim, phlist, phi, phpd, phfds, phshards, phret, phevents>>
  /\ UNCHANGED otherThanPh

PhNext == PhInitialize \/ PhCallback \/ PhFinish

(***************************************************************************)
(* elf_uncompress_lzma_gnu_debugdata: the loop around xz_dec_run, on       *)
(* well-formed, truncated and corrupt .gnu_debugdata contents.             *)
(***************************************************************************)
\* 150 times the byte 97 and the .xz stream liblzma makes of it (LZMA2
\* alone, CRC-32): the payload is longer than twice the stream.
RECURSIVE DdRepeat(_, _)
DdRepeat(v, n) ==
  IF n = 0 THEN <<>>
  ELSE IF n % 2 = 1 THEN Append(DdRepeat(v, n - 1), v)
  ELSE LET h == DdRepeat(v, n \div 2) IN h \o h

DdLong ==
  [payload |-> DdRepeat(97, 150),
   stream |->
     <<253, 55, 122, 88, 90, 0, 0, 1, 105, 34, 222, 54, 2, 0, 33, 1, 22, 0,
       0, 0, 116, 47, 229, 163, 224, 0, 149, 0, 6, 93, 0, 48, 239, 2, 0, 0,
       0, 0, 0, 0, 160, 107, 52, 181, 0, 1, 30, 150, 1, 0, 0, 0, 227, 2,
       115, 28, 62, 48, 13, 139, 2, 0, 0, 0, 0, 1, 89, 90>>]

\* The streams that are cut short and damaged: DdLong, the uncompressed
\* chunk and the stream without blocks.
DdBase == {DdLong} \cup {r \in XzReference : Len(r.payload) <= 5}

\* byte k of stream c replaced by v
DdDamaged(c, k, v) ==
  SubSeq(c, 1, k - 1) \o <<v>> \o SubSeq(c, k + 1, Len(c))

\* The contents of .gnu_debugdata: every reference stream, every proper
\* prefix of a base stream, and every base stream with one byte changed.
DdInputs ==
  {[payload |-> r.payload, stream |-> r.stream, kind |-> "whole"] :
     r \in XzReference \cup {DdLong}}
  \cup
  UNION {{[payload |-> r.payload, stream |-> SubSeq(r.stream, 1, k),
           kind |-> "truncated"] : k \in 0..(Len(r.stream) - 1)} : r \in DdBase}
  \cup
  UNION {{[payload |-> r.payload,
           stream |-> DdDamaged(r.stream, k, (r.stream[k] + 1) % 256),
           kind |-> "corrupt"] : k \in 1..Len(r.stream)} : r \in DdBase}

\* The most calls of xz_dec_run the loop is followed for.
MaxDdCalls == 8

\* The locals before the loop: the vector grown to twice the compressed
\* size, the decoder initialised, the whole input in buf.  rxres is the
\* number of calls of xz_dec_run made, ret, and the value returned once the
\* function has returned.
DdInit ==
  \E c \in DdInputs :
    /\ rxref = c
    /\ rxs = xz_dec_init(TRUE)
    /\ rxb = [in |-> c.stream, in_pos |-> 0, in_size |-> Len(c.stream),
              out |-> <<>>, out_pos |-> 0,
              out_size |-> Len(c.stream) * ELF_LZMA_UNCOMPRESSOR_GROW_FACTOR]
    /\ rxout = <<>>
    /\ rxres = [calls |-> 0, ret |-> "XZ_OK", result |-> <<>>]

\* One iteration of the do ... while (ret == XZ_OK) loop: xz_dec_run, and
\* when the output is full and ret is XZ_OK the vector grows and buf.out is
\* the new space; ret is XZ_MEM_ERROR when it cannot grow.  rxout holds the
\* buffers left behind, one per growth.
DdIterate(r, grow_ok) ==
  IF r.ret = "XZ_OK" /\ r.b.out_pos = r.b.out_size
    THEN IF grow_ok
           THEN /\ rxout' = Append(rxout, SubSeq(r.b.out, 1, r.b.out_pos))
                /\ rxb' = [r.b EXCEPT !.out = <<>>, !.out_pos = 0,
                              !.out_size = Len(r.b.in) * ELF_LZMA_UNCOMPRESSOR_GROW_FACTOR]
                /\ rxres' = [rxres EXCEPT !.calls = @ + 1, !.ret = "XZ_OK"]
         ELSE /\ rxout' = rxout
              /\ rxb' = r.b
              /\ rxres' = [rxres EXCEPT !.calls = @ + 1, !.ret = "XZ_MEM_ERROR"]
  ELSE /\ rxout' = rxout
       /\ rxb' = r.b
       /\ rxres' = [rxres EXCEPT !.calls = @ + 1, !.ret = r.ret]

DdRun ==
  /\ rxres.result = <<>> /\ rxres.ret = "XZ_OK"
  /\ rxres.calls < MaxDdCalls
  /\ \E r \in {xz_dec_run(rxs, rxb)} :
       /\ rxs' = r.s
       /\ \E grow_ok \in BOOLEAN : DdIterate(r, grow_ok)
  /\ UNCHANGED rxref
  /\ UNCHANGED otherThanXzRef

\* After the loop: return 1 for XZ_STREAM_END, else report, free the vector
\* and return 0.
DdReturn ==
  /\ rxres.result = <<>> /\ rxres.ret # "XZ_OK"
  /\ rxres' = [rxres EXCEPT
                 !.result = <<IF rxres.ret = "XZ_STREAM_END" THEN 1 ELSE 0>>]
  /\ UNCHANGED <<rxref, rxs, rxb, rxout>>
  /\ UNCHANGED otherThanXzRef

DdNext == DdRun \/ DdReturn

(***************************************************************************)
(* The LZMA2 control layer (elf.c: xz_dec_lzma2_run after                  *)
(* xz_dec_lzma2_reset) on sequences of chunks.  The LZMA chunk is the one  *)
(* liblzma's encoder makes of 24 times the byte 97.                        *)
(***************************************************************************)
MaxChunks == 3

\* The LZMA chunk: its properties (lc = 3, lp = 0, pb = 2), its compressed
\* data and the size of what it holds.
L2Lzma == [props |-> 93, data |-> <<0, 48, 238, 6, 0, 0, 0>>, size |-> 24]

\* The chunk that starts with the control byte c: the end marker, an
\* uncompressed chunk of one byte, or the LZMA chunk, with its properties
\* where the control byte announces them.
L2Chunk(c) ==
  IF c = 0 THEN <<0>>
  ELSE IF c < 128 THEN <<c, 0, 0, 7>>
  ELSE IF c >= 192
    THEN <<c, 0, L2Lzma.size - 1, 0, Len(L2Lzma.data) - 1, L2Lzma.props>>
           \o L2Lzma.data
  ELSE <<c, 0, L2Lzma.size - 1, 0, Len(L2Lzma.data) - 1>> \o L2Lzma.data

\* the size of what the chunk holds, for a control byte of L2Kinds
L2ChunkOut(c) == IF c = 0 THEN 0 ELSE IF c < 128 THEN 1 ELSE L2Lzma.size

\* The control bytes the comment of SEQ_CONTROL lists, and one that matches
\* none of them.
L2Kinds == {0, 1, 2, 3, 128, 160, 192, 224}

RECURSIVE L2Bytes(_)
L2Bytes(ctl) ==
  IF ctl = <<>> THEN <<>> ELSE L2Chunk(Head(ctl)) \o L2Bytes(Tail(ctl))

\* the offset of chunk k in L2Bytes(ctl), and the size of what the chunks
\* before it hold
RECURSIVE L2Offset(_, _)
L2Offset(ctl, k) ==
  IF k = 1 THEN 0 ELSE L2Offset(ctl, k - 1) + Len(L2Chunk(ctl[k - 1]))

RECURSIVE L2OutBefore(_, _)
L2OutBefore(ctl, k) ==
  IF k = 1 THEN 0 ELSE L2OutBefore(ctl, k - 1) + L2ChunkOut(ctl[k - 1])

\* One chunk with any control byte, and the sequences of two to MaxChunks
\* chunks of L2Kinds.
L2Inputs ==
  {<<c>> : c \in 0..255}
    \cup UNION {[1..n -> L2Kinds] : n \in 2..MaxChunks}

\* The decoder as xz_dec_block_header leaves it: xz_dec_lzma2_reset on the
\* struct of xz_dec_lzma2_create, whose need_props no one has set (or an
\* earlier block has left).  The dictionary is the smallest, 4 KiB.
L2Start(need_props) ==
  xz_dec_lzma2_reset(
    [xz_dec_init(TRUE).lzma2 EXCEPT !.need_props = need_props], 0).L

L2Init ==
  \E ctl \in L2Inputs, need_props \in {0, 1}, whole \in BOOLEAN :
    /\ l2in = [ctl |-> ctl, need_props |-> need_props]
    /\ l2L = L2Start(need_props)
    /\ l2b = [in |-> L2Bytes(ctl), in_pos |-> 0,
              in_size |-> IF whole THEN Len(L2Bytes(ctl))
                          ELSE Len(L2Chunk(ctl[1])),
              out |-> <<>>, out_pos |-> 0,
              out_size |-> (MaxChunks + 1) * L2Lzma.size]
    /\ l2res = <<>>

L2Idle ==
  /\ l2in = <<>>
  /\ l2L = <<>>
  /\ l2b = <<>>
  /\ l2res = <<>>

\* xz_dec_block calls xz_dec_lzma2_run on the input at hand.
L2Run ==
  /\ l2res \in {<<>>, <<"XZ_OK">>}
  /\ l2b.in_pos < l2b.in_size
  /\ LET r == xz_dec_lzma2_run(l2L, l2b)
     IN /\ l2L' = r.L
        /\ l2b' = r.b
        /\ l2res' = <<r.ret>>
  /\ UNCHANGED l2in
  /\ UNCHANGED otherThanLzma2

\* More input arrives: up to the end of a later chunk.
L2Feed ==
  /\ l2res \in {<<>>, <<"XZ_OK">>}
  /\ l2b.in_size < Len(l2b.in)
  /\ \E k \in 2..(Len(l2in.ctl) + 1) :
       /\ L2Offset(l2in.ctl, k) > l2b.in_size
       /\ l2b' = [l2b EXCEPT !.in_size = L2Offset(l2in.ctl, k)]
  /\ UNCHANGED <<l2in, l2L, l2res>>
  /\ UNCHANGED otherThanLzma2

L2Next ==
  \/ L2Run
  \/ L2Feed

(***************************************************************************)
(* Lookups in symbol shards of any contents (elf.c: elf_initialize_syminfo,*)
(* elf_symbol_search, elf_syminfo; pecoff.c: coff_initialize_syminfo,      *)
(* coff_symbol_search, coff_syminfo), the state not threaded.              *)
(***************************************************************************)
MaxSyms == 2

\* the function symbols a symbol table may hold
LkSymbols == [name : {"s"}, address : 0..2, size : 0..2]

\* the addresses looked up: those of the symbols and the ones behind them
LkAddrs == 0..4

\* What backtrace_qsort with elf_symbol_compare / coff_symbol_compare leaves
\* of n function symbols: they are in the order of their addresses, those
\* of one address in any order.
LkSorted(n) ==
  {s \in [1..n -> LkSymbols] :
     \A i \in 1..(n - 1) : s[i].address <= s[i + 1].address}

\* elf_initialize_syminfo from the allocation on, syms being the function
\* symbols as sorted: alloc is the number of entries allocated.
elf_initialize_syminfo(syms) ==
  [symbols |-> syms, count |-> Len(syms), alloc |-> Len(syms)]

\* coff_initialize_syminfo from the allocation on: a struct coff_symbol has
\* no size, and the end of symbols marker follows the symbols.
coff_initialize_syminfo(syms) ==
  [symbols |-> [k \in 1..Len(syms) |->
                  [name |-> syms[k].name, address |-> syms[k].address]]
               \o <<[name |-> "", address |-> COFF_END_ADDRESS]>>,
   count |-> Len(syms), alloc |-> Len(syms) + 1]

LkShard(format, syms) ==
  IF format = "elf" THEN elf_initialize_syminfo(syms)
  ELSE coff_initialize_syminfo(syms)

\* The list of shards as elf_add_syminfo_data / coff_add_syminfo_data build
\* it, each new shard behind the last.
LkHeap(shards) ==
  [k \in 1..Len(shards) |->
     [next |-> IF k < Len(shards) THEN k + 1 ELSE 0,
      symbols |-> shards[k].symbols, count |-> shards[k].count]]

\* The entries (from 1 on) the comparison function reads in bsearch over
\* the entries l + 1 .. u: elf_symbol_search reads the entry it is given,
\* coff_symbol_search that one and the next.
RECURSIVE BsearchReads(_, _, _, _, _)
BsearchReads(format, addr, symbols, l, u) ==
  IF l >= u THEN {}
  ELSE LET idx == (l + u) \div 2
           reads == IF format = "elf" THEN {idx + 1} ELSE {idx + 1, idx + 2}
           c == IF format = "elf" THEN elf_symbol_search(addr, symbols, idx + 1)
                ELSE coff_symbol_search(addr, symbols, idx + 1)
       IN IF c < 0
            THEN reads \cup BsearchReads(format, addr, symbols, l, idx)
          ELSE IF c > 0
            THEN reads \cup BsearchReads(format, addr, symbols, idx + 1, u)
          ELSE reads

\* The shards elf_syminfo / coff_syminfo searches for addr, in order: every
\* shard up to the first in which bsearch finds an entry.
RECURSIVE LkSearched(_, _, _, _)
LkSearched(format, shards, k, addr) ==
  IF k > Len(shards) THEN {}
  ELSE IF bsearch(format, addr, shards[k].symbols, 0, shards[k].count) # 0
    THEN {k}
  ELSE {k} \cup LkSearched(format, shards, k + 1, addr)

LkInit ==
  /\ lkfmt \in {"elf", "coff"}
  /\ \E n \in 0..MaxSyms : \E syms \in LkSorted(n) :
       lkshards = <<LkShard(lkfmt, syms)>>
  /\ lkq = <<>>

LkIdle ==
  /\ lkfmt = ""
  /\ lkshards = <<>>
  /\ lkq = <<>>

\* A second file is loaded: its shard, of one symbol at most, goes behind
\* the first.
LkAdd ==
  /\ lkfmt # ""
  /\ Len(lkshards) = 1
  /\ \E n \in 0..1 : \E syms \in LkSorted(n) :
       lkshards' = Append(lkshards, LkShard(lkfmt, syms))
  /\ lkq' = <<>>
  /\ UNCHANGED lkfmt
  /\ UNCHANGED otherThanLookup

\* elf_syminfo / coff_syminfo for an address: what the callback is called
\* with, and the entries the comparison function read in each shard.
LkSyminfo ==
  /\ lkfmt # ""
  /\ \E addr \in LkAddrs :
       lkq' = <<[addr |-> addr,
                 sym |-> syminfo_unthreaded(lkfmt, LkHeap(lkshards),
                                            IF lkshards = <<>> THEN 0 ELSE 1,
                                            addr),
                 reads |-> [k \in LkSearched(lkfmt, lkshards, 1, addr) |->
                              BsearchReads(lkfmt, addr, lkshards[k].symbols,
                                           0, lkshards[k].count)]]>>
  /\ UNCHANGED <<lkfmt, lkshards>>
  /\ UNCHANGED otherThanLookup

LkNext ==
  \/ LkAdd
  \/ LkSyminfo

(***************************************************************************)
(* How elf_add maps the debug sections (elf.c: elf_add, from the loop over *)
(* sections and zsections to the views).  A section is [offset, size],     *)
(* size 0 when the file has no such section.                               *)
(***************************************************************************)
\* 0x20000000 and 0x10000
SINGLE_VIEW_SPAN == 536870912
SINGLE_VIEW_SLACK == 65536

DvNone == [offset |-> 0, size |-> 0]

\* The sections .debug_X: absent; of 16 or 32 bytes at the start of the
\* file; of 16 bytes 64 KiB behind a first one, or so far behind it that
\* they end just below or at half a GiB from it; of half a GiB at the start
\* of the file; of 16 bytes behind that one, leaving a gap of 64 KiB or of
\* 16 bytes less.
DvPlain ==
  {DvNone}
    \cup [offset : {4096, 4096 + SINGLE_VIEW_SLACK + 16,
                    4096 + SINGLE_VIEW_SPAN - 32, 4096 + SINGLE_VIEW_SPAN - 16,
                    4096 + SINGLE_VIEW_SPAN + SINGLE_VIEW_SLACK - 16,
                    4096 + SINGLE_VIEW_SPAN + SINGLE_VIEW_SLACK},
          size : {16}]
    \cup {[offset |-> 4096, size |-> 32],
          [offset |-> 4096, size |-> SINGLE_VIEW_SPAN]}

\* The sections .zdebug_X: absent, or of 16 bytes.
DvCompressed ==
  {DvNone} \cup [offset : {4096, 4096 + SINGLE_VIEW_SLACK + 16}, size : {16}]

DvInputs ==
  [sections : [VwSections -> DvPlain], zsections : [VwSections -> DvCompressed]]

\* One turn of the loop over the debug sections for the section sec.
DvMeasureOne(m, sec) ==
  IF sec.size = 0 THEN m
  ELSE [min_offset |-> IF m.min_offset = 0 \/ sec.offset < m.min_offset
                         THEN sec.offset ELSE m.min_offset,
        max_offset |-> IF sec.offset + sec.size > m.max_offset
                         THEN sec.offset + sec.size ELSE m.max_offset,
        debug_size |-> m.debug_size + sec.size]

\* for (i = 0; i < (int) DEBUG_MAX; ++i) from section i on
RECURSIVE DvMeasureFrom(_, _, _)
DvMeasureFrom(m, w, i) ==
  IF i > MaxDebugSections THEN m
  ELSE DvMeasureFrom(
         DvMeasureOne(DvMeasureOne(m, w.sections[i]), w.zsections[i]),
         w, i + 1)

\* DvViews with && for || in the test for one view.
DvViewsBoth(w, m) ==
  IF m.min_offset = 0 \/ m.max_offset = 0
    THEN [kind |-> "none", views |-> <<>>]
  ELSE IF m.max_offset - m.min_offset < SINGLE_VIEW_SPAN
          /\ m.max_offset - m.min_offset < m.debug_size + SINGLE_VIEW_SLACK
    THEN [kind |-> "debug_view",
          views |-> <<[offset |-> m.min_offset,
                       size |-> m.max_offset - m.min_offset]>>]
  ELSE [kind |-> "split_debug_view",
        views |-> [i \in VwSections |->
                     IF w.sections[i].size # 0 THEN w.sections[i]
                     ELSE IF w.zsections[i].size # 0 THEN w.zsections[i]
                     ELSE DvNone]]

\* The views elf_add asks elf_get_view for, given what the loop came to:
\* none, one for all the sections, or one for each index that has a
\* section, the .debug_X one if there is one and the .zdebug_X one if not.
DvViews(w, m) ==
  IF m.min_offset = 0 \/ m.max_offset = 0
    THEN [kind |-> "none", views |-> <<>>]
  ELSE IF m.max_offset - m.min_offset < SINGLE_VIEW_SPAN
          \/ m.max_offset - m.min_offset < m.debug_size + SINGLE_VIEW_SLACK
    THEN [kind |-> "debug_view",
          views |-> <<[offset |-> m.min_offset,
                       size |-> m.max_offset - m.min_offset]>>]
  ELSE [kind |-> "split_debug_view",
        views |-> [i \in VwSections |->
                     IF w.sections[i].size # 0 THEN w.sections[i]
                     ELSE IF w.zsections[i].size # 0 THEN w.zsections[i]
                     ELSE DvNone]]

DvInit ==
  /\ dvsec \in DvInputs
  /\ dvspan = <<>>
  /\ dvmap = <<>>

DvIdle ==
  /\ dvsec = <<>>
  /\ dvspan = <<>>
  /\ dvmap = <<>>

\* min_offset = 0; max_offset = 0; debug_size = 0; and the loop
DvMeasure ==
  /\ dvsec # <<>> /\ dvspan = <<>>
  /\ dvspan' = <<DvMeasureFrom([min_offset |-> 0, max_offset |-> 0,
                                debug_size |-> 0], dvsec, 1)>>
  /\ UNCHANGED <<dvsec, dvmap>>
  /\ UNCHANGED otherThanDebugView

\* The views are asked for, each call of elf_get_view succeeding or not:
\* failed is the view whose call fails (goto fail), 0 when none does.
DvGetViews ==
  /\ dvspan # <<>> /\ dvmap = <<>>
  /\ LET v == DvViews(dvsec, dvspan[1])
         asked == {i \in 1..Len(v.views) : v.views[i].size # 0}
     IN \E failed \in {0} \cup asked :
          dvmap' = <<[kind |-> v.kind, views |-> v.views,
                      failed |-> failed]>>
  /\ UNCHANGED <<dvsec, dvspan>>
  /\ UNCHANGED otherThanDebugView

DvNext ==
  \/ DvMeasure
  \/ DvGetViews

(***************************************************************************)
(* macho_try_dwarf and the descriptor backtrace_open hands it (macho.c).   *)
(* backtrace_open returns -1 when the file cannot be opened and the lowest *)
(* descriptor not open in the process when it can, which is 0 when the     *)
(* process runs with descriptor 0 closed.                                  *)
(***************************************************************************)
MaxFd == 2

MdDescriptors == 0..MaxFd

MdFilename == DSYM_DWARF_DIR \o <<"/">> \o DsymNames[1]

\* The files tried: every kind of directory entry that is a regular file.
MdKinds == DsymKinds \ {"dir"}

MdFs(k) == [p \in {MdFilename} |-> DsymEntry(k)]

\* What one call did with a descriptor.
MdOp(op, fd) == [op |-> op, fd |-> fd]

MdInit ==
  /\ mdfds \in SUBSET MdDescriptors
  /\ mdfile \in MdKinds
  /\ mdL = [pc |-> "open", ret |-> 0, dwarf_descriptor |-> -1,
            dwarf_descriptor_valid |-> 0]
  /\ mdlog = <<>>

MdIdle ==
  /\ mdfds = {}
  /\ mdfile = ""
  /\ mdL = <<>>
  /\ mdlog = <<>>

\* if ((dwarf_descriptor = backtrace_open (...)) == 0) goto end;
\* dwarf_descriptor_valid = 1;
MdOpen ==
  /\ mdL # <<>> /\ mdL.pc = "open"
  /\ LET free == (0..(MaxFd + 1)) \ mdfds
         d == IF CanOpen(MdFs(mdfile), MdFilename)
                THEN CHOOSE v \in free : \A u \in free : v <= u
                ELSE -1
     IN /\ mdfds' = IF d >= 0 THEN mdfds \cup {d} ELSE mdfds
        /\ mdlog' = Append(mdlog, MdOp("open", d))
        /\ mdL' = IF d = 0
                    THEN [mdL EXCEPT !.dwarf_descriptor = d, !.pc = "end"]
                    ELSE [mdL EXCEPT !.dwarf_descriptor = d,
                                     !.dwarf_descriptor_valid = 1,
                                     !.pc = "commands"]
  /\ UNCHANGED mdfile
  /\ UNCHANGED otherThanMachoDescriptor

\* From macho_get_commands to ret = 1: the views are read through
\* dwarf_descriptor, whatever it is.
MdRead ==
  /\ mdL # <<>> /\ mdL.pc = "commands"
  /\ LET F == MdFs(mdfile)
         fd == mdL.dwarf_descriptor
         cmds == macho_get_commands(F, MdFilename, fd)
         img == ImageOf(F, MdFilename)
         u == macho_get_uuid(img.cmds)
         added == /\ cmds.ok /\ u.ok
                  /\ ~memcmp_differs(EXECUTABLE_UUID, u.uuid, UUID_SIZE)
                  /\ img.dwarf /\ img.dwarf_ok
     IN /\ mdlog' = Append(mdlog, MdOp("read", fd))
        /\ mdL' = IF added
                    THEN [mdL EXCEPT !.dwarf_descriptor_valid = 0, !.ret = 1,
                                     !.pc = "end"]
                    ELSE [mdL EXCEPT !.pc = "end"]
  /\ UNCHANGED <<mdfds, mdfile>>
  /\ UNCHANGED otherThanMachoDescriptor

\* end: if (dwarf_descriptor_valid) backtrace_close (dwarf_descriptor, ...);
\* return ret;
MdEnd ==
  /\ mdL # <<>> /\ mdL.pc = "end"
  /\ IF mdL.dwarf_descriptor_valid = 1
       THEN /\ mdlog' = Append(mdlog, MdOp("close", mdL.dwarf_descriptor))
            /\ mdfds' = mdfds \ {mdL.dwarf_descriptor}
       ELSE UNCHANGED <<mdlog, mdfds>>
  /\ mdL' = [mdL EXCEPT !.pc = "return"]
  /\ UNCHANGED mdfile
  /\ UNCHANGED otherThanMachoDescriptor

MdNext ==
  \/ MdOpen
  \/ MdRead
  \/ MdEnd

(***************************************************************************)
(* elf_add and the section header table (elf.c: elf_add, from shoff =      *)
(* ehdr.e_shoff to the symbol table's string table).  shnum, shstrndx and  *)
(* the index variables are unsigned int.                                   *)
(***************************************************************************)
MaxShnum == 3

SHN_LORESERVE == 65280

SHN_XINDEX == 65535

\* 0x100, by which binutils 2.12 to 2.18 offset large section indexes
SHN_OFFSET_BUG == 256

\* A section header: its type and its sh_link.
ShHeaders(n) ==
  [1..n -> [sh_type : {"SHT_PROGBITS", "SHT_SYMTAB"}, sh_link : 0..MaxShnum]]

\* The files: e_shoff, e_shnum and e_shstrndx of the ELF header, sh_size and
\* sh_link of section header 0, and the section headers 1 .. shnum - 1, of
\* which at most one is a symbol table.
ShNumOf(e_shnum, e_shoff, sh_size0) ==
  IF e_shnum = 0 /\ e_shoff # 0 THEN sh_size0 ELSE e_shnum

ShInputs ==
  {w \in [e_shoff : {0, 64}, e_shnum : 0..MaxShnum,
          e_shstrndx : (0..MaxShnum) \cup {SHN_XINDEX},
          sh_size0 : {0, MaxShnum},
          sh_link0 : {0, 2, SHN_LORESERVE + SHN_OFFSET_BUG + 2},
          symtab : 0..(MaxShnum - 1), symtab_link : 0..MaxShnum,
          debuginfo : BOOLEAN] :
     /\ w.symtab < ShNumOf(w.e_shnum, w.e_shoff, w.sh_size0)
     /\ w.symtab = 0 => w.symtab_link = 0
     /\ (w.e_shnum # 0 \/ w.e_shoff = 0) => w.sh_size0 = 0
     /\ (w.e_shstrndx # SHN_XINDEX \/ w.e_shoff = 0) => w.sh_link0 = 0}

\* The section header i of the file w, for i in 1 .. shnum - 1.
ShHeaderOf(w, i) ==
  IF i = w.symtab THEN [sh_type |-> "SHT_SYMTAB", sh_link |-> w.symtab_link]
  ELSE [sh_type |-> "SHT_PROGBITS", sh_link |-> 0]

\* (shnum - 1) as an unsigned int, in 16-bit halves <<high, low>>.
ShCountMinusOne(shnum) ==
  IF shnum = 0 THEN <<65535, 65535>> ELSE <<0, shnum - 1>>

\* &shdrs[index - 1] was computed while shnum was as given.
ShDeref(what, index, shnum) == [what |-> what, index |-> index, shnum |-> shnum]

ShInit ==
  /\ shin \in ShInputs
  /\ shL = [pc |-> "shnum", shnum |-> 0, shstrndx |-> 0, symtab_shndx |-> 0,
            count |-> <<>>]
  /\ shderef = <<>>
  /\ shres = <<>>

ShIdle ==
  /\ shin = <<>>
  /\ shL = <<>>
  /\ shderef = <<>>
  /\ shres = <<>>

ShFail(msg) ==
  /\ shres' = <<[ret |-> 0, error |-> msg]>>
  /\ shL' = [shL EXCEPT !.pc = "done"]
  /\ UNCHANGED shderef

\* shoff = ehdr.e_shoff ... up to the release of the view of section
\* header 0.  elf_get_view can fail.
ShNumbers ==
  /\ shL # <<>> /\ shL.pc = "shnum"
  /\ LET w == shin
         read0 == (w.e_shnum = 0 \/ w.e_shstrndx = SHN_XINDEX) /\ w.e_shoff # 0
         shnum == IF read0 /\ w.e_shnum = 0 THEN w.sh_size0 ELSE w.e_shnum
         link == IF w.sh_link0 >= shnum
                      /\ w.sh_link0 >= SHN_LORESERVE + SHN_OFFSET_BUG
                   THEN w.sh_link0 - SHN_OFFSET_BUG ELSE w.sh_link0
         shstrndx == IF read0 /\ w.e_shstrndx = SHN_XINDEX THEN link
                     ELSE w.e_shstrndx
     IN \/ /\ read0
           /\ ShFail("view")
        \/ /\ shL' = [shL EXCEPT !.pc = "views", !.shnum = shnum,
                                 !.shstrndx = shstrndx]
           /\ UNCHANGED <<shderef, shres>>
  /\ UNCHANGED shin
  /\ UNCHANGED otherThanSectionHeaders

\* The view of the section headers 1 .. shnum - 1, shstrhdr =
\* &shdrs[shstrndx - 1] and the view of the section names.  Either view can
\* fail.
ShViews ==
  /\ shL # <<>> /\ shL.pc = "views"
  /\ \/ /\ shres' = <<[ret |-> 0, error |-> "view"]>>
        /\ shL' = [shL EXCEPT !.pc = "done",
                              !.count = ShCountMinusOne(shL.shnum)]
        /\ UNCHANGED shderef
     \/ /\ shderef' = Append(shderef,
                             ShDeref("shstrhdr", shL.shstrndx, shL.shnum))
        /\ \/ /\ shres' = <<[ret |-> 0, error |-> "view"]>>
              /\ shL' = [shL EXCEPT !.pc = "done",
                                    !.count = ShCountMinusOne(shL.shnum)]
           \/ /\ shL' = [shL EXCEPT !.pc = "scan",
                                    !.count = ShCountMinusOne(shL.shnum)]
              /\ UNCHANGED shres
  /\ UNCHANGED shin
  /\ UNCHANGED otherThanSectionHeaders

\* for (i = 1; i < shnum; ++i): shdr = &shdrs[i - 1], and the symbol table
\* is the last section of type SHT_SYMTAB.
RECURSIVE ShScanFrom(_, _, _, _)
ShScanFrom(w, shnum, i, acc) ==
  IF i >= shnum THEN acc
  ELSE ShScanFrom(w, shnum, i + 1,
         [derefs |-> Append(acc.derefs, ShDeref("shdr", i, shnum)),
          symtab_shndx |-> IF ShHeaderOf(w, i).sh_type = "SHT_SYMTAB"
                             THEN i ELSE acc.symtab_shndx])

ShScan ==
  /\ shL # <<>> /\ shL.pc = "scan"
  /\ LET r == ShScanFrom(shin, shL.shnum, 1,
                         [derefs |-> <<>>, symtab_shndx |-> 0])
     IN /\ shderef' = shderef \o r.derefs
        /\ shL' = [shL EXCEPT !.pc = "symtab",
                              !.symtab_shndx = r.symtab_shndx]
  /\ UNCHANGED <<shin, shres>>
  /\ UNCHANGED otherThanSectionHeaders

\* if (symtab_shndx != 0 && !debuginfo): symtab_shdr, strtab_shndx =
\* symtab_shdr->sh_link, the test against shnum, strtab_shdr, and the views
\* of the two tables, which can fail.
ShSymtab ==
  /\ shL # <<>> /\ shL.pc = "symtab"
  /\ IF shL.symtab_shndx = 0 \/ shin.debuginfo
       THEN /\ shres' = <<[ret |-> 1, error |-> ""]>>
            /\ shL' = [shL EXCEPT !.pc = "done"]
            /\ UNCHANGED shderef
       ELSE LET strtab_shndx == ShHeaderOf(shin, shL.symtab_shndx).sh_link
                d1 == Append(shderef,
                             ShDeref("symtab_shdr", shL.symtab_shndx, shL.shnum))
            IN IF strtab_shndx >= shL.shnum
                 THEN /\ shderef' = d1
                      /\ shres' = <<[ret |-> 0,
                           error |-> "ELF symbol table strtab link out of range"]>>
                      /\ shL' = [shL EXCEPT !.pc = "done"]
                 ELSE /\ shderef' = Append(d1,
                           ShDeref("strtab_shdr", strtab_shndx, shL.shnum))
                      /\ shL' = [shL EXCEPT !.pc = "done"]
                      /\ \/ shres' = <<[ret |-> 0, error |-> "view"]>>
                         \/ shres' = <<[ret |-> 1, error |-> ""]>>
  /\ UNCHANGED shin
  /\ UNCHANGED otherThanSectionHeaders

ShNext ==
  \/ ShNumbers
  \/ ShViews
  \/ ShScan
  \/ ShSymtab

(***************************************************************************)
(* state->syminfo_fn when backtrace_initialize runs more than once on a    *)
(* state (elf.c, pecoff.c: backtrace_initialize, the store of syminfo_fn). *)
(* In a threaded state the calls are those of several threads that found   *)
(* the state uninitialized; each stores with one atomic operation.         *)
(***************************************************************************)
MaxInitCalls == 3

\* __sync_bool_compare_and_swap (ptr, old, new): the value of *ptr after it
sync_bool_compare_and_swap(cur, old, new) == IF cur = old THEN new ELSE cur

\* SfStore with the no symbols function stored whatever the state holds.
SfStore_always(format, threaded, syminfo_fn, sym) ==
  IF sym THEN (IF format = "elf" THEN "elf_syminfo" ELSE "coff_syminfo")
  ELSE (IF format = "elf" THEN "elf_nosyms" ELSE "coff_nosyms")

\* The store of syminfo_fn at the end of backtrace_initialize.
SfStore(format, threaded, syminfo_fn, sym) ==
  IF ~threaded THEN RegSyminfoFn(format, syminfo_fn, sym)
  ELSE IF sym
    THEN (IF format = "elf" THEN "elf_syminfo" ELSE "coff_syminfo")
  ELSE sync_bool_compare_and_swap(syminfo_fn, "NULL",
         IF format = "elf" THEN "elf_nosyms" ELSE "coff_nosyms")

SfInit ==
  /\ sfstate \in [format : {"elf", "coff"}, threaded : BOOLEAN,
                  syminfo_fn : {"NULL"}]
  /\ \E n \in 1..MaxInitCalls :
       sfcalls \in [1..n -> [found_sym : BOOLEAN, pc : {"called"},
                             before : {""}]]

SfIdle ==
  /\ sfstate = <<>>
  /\ sfcalls = <<>>

\* backtrace_initialize of elf.c, call t: the store of syminfo_fn.
SfInitializeElf(t) ==
  /\ sfstate # <<>> /\ sfstate.format = "elf"
  /\ sfcalls[t].pc = "called"
  /\ sfstate.threaded \/ \A u \in 1..(t - 1) : sfcalls[u].pc = "done"
  /\ sfstate' = [sfstate EXCEPT !.syminfo_fn =
                   SfStore("elf", sfstate.threaded, @, sfcalls[t].found_sym)]
  /\ sfcalls' = [sfcalls EXCEPT ![t].pc = "done",
                                ![t].before = sfstate.syminfo_fn]
  /\ UNCHANGED otherThanSyminfoFn

\* backtrace_initialize of pecoff.c, call t: the store of syminfo_fn.
SfInitializeCoff(t) ==
  /\ sfstate # <<>> /\ sfstate.format = "coff"
  /\ sfcalls[t].pc = "called"
  /\ sfstate.threaded \/ \A u \in 1..(t - 1) : sfcalls[u].pc = "done"
  /\ sfstate' = [sfstate EXCEPT !.syminfo_fn =
                   SfStore("coff", sfstate.threaded, @, sfcalls[t].found_sym)]
  /\ sfcalls' = [sfcalls EXCEPT ![t].pc = "done",
                                ![t].before = sfstate.syminfo_fn]
  /\ UNCHANGED otherThanSyminfoFn

SfNext ==
  \/ \E t \in DOMAIN sfcalls : SfInitializeElf(t)
  \/ \E t \in DOMAIN sfcalls : SfInitializeCoff(t)

(***************************************************************************)
(* backtrace_qsort, one action per statement of its loops (sort.c).  The   *)
(* arrays are long enough for three passes (gaps 9, 3, 1).                 *)
(***************************************************************************)
MaxLongCount == 25

\* The arrays: count records whose keys ascend, descend, alternate or are
\* all the same.
QlPatterns == {"ascending", "descending", "alternating", "equal"}

QlKeys(n, pattern) ==
  [i \in 1..n |-> IF pattern = "ascending" THEN i
                  ELSE IF pattern = "descending" THEN n - i
                  ELSE IF pattern = "alternating" THEN i % 2
                  ELSE 0]

QlInit ==
  /\ qlin \in [count : 0..MaxLongCount, size : ElemSizes, compar : Comparators]
  /\ \E pattern \in QlPatterns :
       qlbase = Flatten(QlKeys(qlin.count, pattern), qlin.size, 1)
  /\ qlL = [pc |-> "call", dist |-> 0, d |-> 0, i |-> 0, cur |-> 0]
  /\ qlpasses = <<>>
  /\ qllow = 0

QlIdle ==
  /\ qlin = <<>>
  /\ qlbase = <<>>
  /\ qlL = <<>>
  /\ qlpasses = <<>>
  /\ qllow = 0

\* if (count < 2) return; dist = count;
QlEnter ==
  /\ qlL # <<>> /\ qlL.pc = "call"
  /\ qlL' = IF qlin.count < 2 THEN [qlL EXCEPT !.pc = "return"]
            ELSE [qlL EXCEPT !.pc = "do", !.dist = qlin.count]
  /\ UNCHANGED <<qlin, qlbase, qlpasses, qllow>>
  /\ UNCHANGED otherThanSortLoops

\* dist = (dist / 8 * 3) | 1; d = dist * size; i = dist
QlPass ==
  /\ qlL # <<>> /\ qlL.pc = "do"
  /\ LET nd == NextDist(qlL.dist)
     IN /\ qlL' = [qlL EXCEPT !.pc = "for_i", !.dist = nd,
                              !.d = nd * qlin.size, !.i = nd]
        /\ qlpasses' = Append(qlpasses, nd)
  /\ UNCHANGED <<qlin, qlbase, qllow>>
  /\ UNCHANGED otherThanSortLoops

\* i < count of the outer for, and cur = base + i*size - d
QlOuter ==
  /\ qlL # <<>> /\ qlL.pc = "for_i"
  /\ qlL' = IF qlL.i < qlin.count
              THEN [qlL EXCEPT !.pc = "for_cur",
                               !.cur = qlL.i * qlin.size - qlL.d]
              ELSE [qlL EXCEPT !.pc = "while"]
  /\ UNCHANGED <<qlin, qlbase, qlpasses, qllow>>
  /\ UNCHANGED otherThanSortLoops

\* cur >= base of the inner for and its body: the comparison, and the break
\* or the swap and cur -= d.  When the inner for ends, i++.
QlInner ==
  /\ qlL # <<>> /\ qlL.pc = "for_cur"
  /\ IF qlL.cur < 0
       THEN /\ qlL' = [qlL EXCEPT !.pc = "for_i", !.i = @ + 1]
            /\ UNCHANGED <<qlbase, qllow>>
       ELSE /\ qllow' = IF qlL.cur < qllow THEN qlL.cur ELSE qllow
            /\ IF CallCompar(qlin.compar, qlbase, qlL.cur, qlL.cur + qlL.d) <= 0
                 THEN /\ qlL' = [qlL EXCEPT !.pc = "for_i", !.i = @ + 1]
                      /\ UNCHANGED qlbase
                 ELSE /\ qlbase' = swap(qlbase, qlL.cur, qlL.cur + qlL.d,
                                        qlin.size, 0)
                      /\ qlL' = [qlL EXCEPT !.cur = @ - qlL.d]
  /\ UNCHANGED <<qlin, qlpasses>>
  /\ UNCHANGED otherThanSortLoops

\* while (dist != 1);
QlWhile ==
  /\ qlL # <<>> /\ qlL.pc = "while"
  /\ qlL' = [qlL EXCEPT !.pc = IF qlL.dist # 1 THEN "do" ELSE "return"]
  /\ UNCHANGED <<qlin, qlbase, qlpasses, qllow>>
  /\ UNCHANGED otherThanSortLoops

QlNext ==
  \/ QlEnter
  \/ QlPass
  \/ QlOuter
  \/ QlInner
  \/ QlWhile

(***************************************************************************)
(* coff_add's loop over the section headers, with its loop over the debug  *)
(* section names inside which .gnu_debuglink and .gnu_debugaltlink are     *)
(* read (pecoff.c: coff_add).                                              *)
(***************************************************************************)
MaxCoffSections == 3

\* static const char * const debug_section_names[DEBUG_MAX]
debug_section_names ==
  <<".debug_info", ".debug_line", ".debug_abbrev", ".debug_ranges",
    ".debug_str", ".debug_addr", ".debug_str_offsets", ".debug_line_str",
    ".debug_rnglists">>

\* The section headers: the name, and for .gnu_debuglink whether the
\* section has room for the CRC behind the file name.  Section i of the
\* file holds the file name <<i>>, the CRC <<0, i>>, and lies at offset i.
CsKinds ==
  [name : {".debug_info", ".debug_line", ".debug_rnglists",
           ".gnu_debugaltlink", ".text"}, crc_fits : {TRUE}]
    \cup [name : {".gnu_debuglink"}, crc_fits : BOOLEAN]

CsInputs == UNION {[1..n -> CsKinds] : n \in 0..MaxCoffSections}

CsRecorded(what, i, j) == [what |-> what, i |-> i, j |-> j]

\* for (j = 0; j < (int) DEBUG_MAX; ++j) without the tests of
\* debuglink_view_valid and debugaltlink_view_valid.
RECURSIVE CoffMatchLoop_unguarded(_, _, _, _, _)
CoffMatchLoop_unguarded(r, s, i, j, view_ok) ==
  IF j >= Len(debug_section_names) THEN r
  ELSE IF s.name = debug_section_names[j + 1]
    THEN [r EXCEPT !.L.sections[j + 1] = [offset |-> i, size |-> 1],
                   !.log = Append(@, CsRecorded("section", i, j))]
  ELSE LET r1 == IF s.name = ".gnu_debuglink"
                   THEN IF ~view_ok THEN [r EXCEPT !.L.failed = TRUE]
                        ELSE IF s.crc_fits
                          THEN [r EXCEPT !.L.debuglink_view_valid = TRUE,
                                         !.L.debuglink_name = <<<<i>>>>,
                                         !.L.debuglink_crc = <<0, i>>,
                                         !.log = Append(@,
                                            CsRecorded("debuglink", i, j))]
                        ELSE [r EXCEPT !.L.debuglink_view_valid = TRUE]
                   ELSE r
           r2 == IF ~r1.L.failed /\ s.name = ".gnu_debugaltlink"
                   THEN IF ~view_ok THEN [r1 EXCEPT !.L.failed = TRUE]
                        ELSE [r1 EXCEPT !.L.debugaltlink_view_valid = TRUE,
                                        !.L.debugaltlink_name = <<<<i>>>>,
                                        !.log = Append(@,
                                           CsRecorded("debugaltlink", i, j))]
                   ELSE r1
       IN IF r2.L.failed THEN r2
          ELSE CoffMatchLoop_unguarded(r2, s, i, j + 1, view_ok)

\* for (j = 0; j < (int) DEBUG_MAX; ++j) for section header s, the i-th of
\* the file, from j on: a match with debug_section_names[j] records the
\* section and leaves the loop; otherwise the names .gnu_debuglink and
\* .gnu_debugaltlink are compared, inside the same loop.  view_ok: whether
\* backtrace_get_view succeeds for this section; if not, goto fail.
RECURSIVE CoffMatchLoop(_, _, _, _, _)
CoffMatchLoop(r, s, i, j, view_ok) ==
  IF j >= Len(debug_section_names) THEN r
  ELSE IF s.name = debug_section_names[j + 1]
    THEN [r EXCEPT !.L.sections[j + 1] = [offset |-> i, size |-> 1],
                   !.log = Append(@, CsRecorded("section", i, j))]
  ELSE LET r1 == IF ~r.L.debuglink_view_valid /\ s.name = ".gnu_debuglink"
                   THEN IF ~view_ok THEN [r EXCEPT !.L.failed = TRUE]
                        ELSE IF s.crc_fits
                          THEN [r EXCEPT !.L.debuglink_view_valid = TRUE,
                                         !.L.debuglink_name = <<<<i>>>>,
                                         !.L.debuglink_crc = <<0, i>>,
                                         !.log = Append(@,
                                            CsRecorded("debuglink", i, j))]
                        ELSE [r EXCEPT !.L.debuglink_view_valid = TRUE]
                   ELSE r
           r2 == IF ~r1.L.failed /\ ~r1.L.debugaltlink_view_valid
                      /\ s.name = ".gnu_debugaltlink"
                   THEN IF ~view_ok THEN [r1 EXCEPT !.L.failed = TRUE]
                        ELSE [r1 EXCEPT !.L.debugaltlink_view_valid = TRUE,
                                        !.L.debugaltlink_name = <<<<i>>>>,
                                        !.log = Append(@,
                                           CsRecorded("debugaltlink", i, j))]
                   ELSE r1
       IN IF r2.L.failed THEN r2
          ELSE CoffMatchLoop(r2, s, i, j + 1, view_ok)

CsInit ==
  /\ csin \in CsInputs
  /\ csL = [pc |-> "loop", i |-> 1, failed |-> FALSE,
            sections |-> [j \in 1..Len(debug_section_names) |->
                            [offset |-> 0, size |-> 0]],
            debuglink_view_valid |-> FALSE, debuglink_name |-> <<>>,
            debuglink_crc |-> Zero32,
            debugaltlink_view_valid |-> FALSE, debugaltlink_name |-> <<>>]
  /\ cslog = <<>>

CsIdle ==
  /\ csin = <<>>
  /\ csL = <<>>
  /\ cslog = <<>>

\* One iteration of for (i = 0; i < sects_num; ++i).
CsSection ==
  /\ csL # <<>> /\ csL.pc = "loop"
  /\ csL.i <= Len(csin)
  /\ \E view_ok \in BOOLEAN :
       \E r \in {CoffMatchLoop([L |-> csL, log |-> cslog], csin[csL.i],
                               csL.i, 0, view_ok)} :
         /\ csL' = IF r.L.failed THEN [r.L EXCEPT !.pc = "fail"]
                   ELSE [r.L EXCEPT !.i = @ + 1]
         /\ cslog' = r.log
  /\ UNCHANGED csin
  /\ UNCHANGED otherThanCoffClassify

\* The end of the loop.
CsLoopEnd ==
  /\ csL # <<>> /\ csL.pc = "loop"
  /\ csL.i > Len(csin)
  /\ csL' = [csL EXCEPT !.pc = "symbols"]
  /\ UNCHANGED <<csin, cslog>>
  /\ UNCHANGED otherThanCoffClassify

CsNext ==
  \/ CsSection
  \/ CsLoopEnd

(***************************************************************************)
(* The specifications: each runs one part and leaves the others idle.      *)
(***************************************************************************)
InitSort == SortInit /\ ResIdle /\ XzIdle /\ ZlibIdle /\ SymIdle /\ RegIdle /\ CrcIdle /\ XzRefIdle /\ LnIdle /\ VwIdle /\ PhIdle /\ L2Idle /\ LkIdle /\ DvIdle /\ MdIdle /\ ShIdle /\ SfIdle /\ QlIdle /\ CsIdle

SpecSort == InitSort /\ [][SortNext]_vars

InitResolve == ResInit /\ SortIdle /\ XzIdle /\ ZlibIdle /\ SymIdle /\ RegIdle /\ CrcIdle /\ XzRefIdle /\ LnIdle /\ VwIdle /\ PhIdle /\ L2Idle /\ LkIdle /\ DvIdle /\ MdIdle /\ ShIdle /\ SfIdle /\ QlIdle /\ CsIdle

InitXz == XzInit /\ SortIdle /\ ResIdle /\ ZlibIdle /\ SymIdle /\ RegIdle /\ CrcIdle /\ XzRefIdle /\ LnIdle /\ VwIdle /\ PhIdle /\ L2Idle /\ LkIdle /\ DvIdle /\ MdIdle /\ ShIdle /\ SfIdle /\ QlIdle /\ CsIdle

InitZlib == ZlibInit /\ SortIdle /\ ResIdle /\ XzIdle /\ SymIdle /\ RegIdle /\ CrcIdle /\ XzRefIdle /\ LnIdle /\ VwIdle /\ PhIdle /\ L2Idle /\ LkIdle /\ DvIdle /\ MdIdle /\ ShIdle /\ SfIdle /\ QlIdle /\ CsIdle

InitSyminfo == SymInit /\ SortIdle /\ ResIdle /\ XzIdle /\ ZlibIdle /\ RegIdle /\ CrcIdle /\ XzRefIdle /\ LnIdle /\ VwIdle /\ PhIdle /\ L2Idle /\ LkIdle /\ DvIdle /\ MdIdle /\ ShIdle /\ SfIdle /\ QlIdle /\ CsIdle

SpecXz == InitXz /\ [][XzNext]_vars

SpecZlib == InitZlib /\ [][ZlibNext]_vars

SpecSyminfo == InitSyminfo /\ [][SymNext]_vars

\* The insertions alone, with every thread that is inside
\* elf_add_syminfo_data / coff_add_syminfo_data taking its next step in the
\* end: a thread is an OS thread the scheduler keeps running, and neither
\* loop of the function waits for anything.  Lookups write nothing the
\* insertions read.
SymAddNext ==
  \E t \in Threads :
    \/ SymAlloc(t)
    \/ SymInitialize(t)
    \/ SymAddLoad(t)
    \/ SymAddCas(t)

SymAddFair == \A t \in Threads : WF_vars(SymAddLoad(t) \/ SymAddCas(t))

SpecSyminfoFair == InitSyminfo /\ [][SymAddNext]_vars /\ SymAddFair

SpecResolve == InitResolve /\ [][ResNext]_vars

InitXzRef ==
  XzRefInit /\ SortIdle /\ ResIdle /\ XzIdle /\ ZlibIdle /\ SymIdle /\ RegIdle /\ LnIdle /\ VwIdle /\ PhIdle /\ L2Idle /\ LkIdle /\ DvIdle /\ MdIdle /\ ShIdle /\ SfIdle /\ QlIdle /\ CsIdle
    /\ CrcIdle

SpecXzRef == InitXzRef /\ [][XzRefNext]_vars

InitRegistry ==
  RegInit /\ SortIdle /\ ResIdle /\ XzIdle /\ ZlibIdle /\ SymIdle /\ CrcIdle /\ XzRefIdle /\ LnIdle /\ VwIdle /\ PhIdle /\ L2Idle /\ LkIdle /\ DvIdle /\ MdIdle /\ ShIdle /\ SfIdle /\ QlIdle /\ CsIdle

SpecRegistry == InitRegistry /\ [][RegNext]_vars

InitCrc ==
  CrcInit /\ SortIdle /\ ResIdle /\ XzIdle /\ ZlibIdle /\ SymIdle /\ RegIdle /\ XzRefIdle /\ LnIdle /\ VwIdle /\ PhIdle /\ L2Idle /\ LkIdle /\ DvIdle /\ MdIdle /\ ShIdle /\ SfIdle /\ QlIdle /\ CsIdle

SpecCrc == InitCrc /\ [][CrcNext]_vars

InitSymlink ==
  LnInit /\ SortIdle /\ ResIdle /\ XzIdle /\ ZlibIdle /\ SymIdle /\ RegIdle /\ VwIdle /\ PhIdle /\ L2Idle /\ LkIdle /\ DvIdle /\ MdIdle /\ ShIdle /\ SfIdle /\ QlIdle /\ CsIdle
    /\ CrcIdle /\ XzRefIdle

\* The loop keeps running: neither system call waits for anything.
SpecSymlink == InitSymlink /\ [][LnNext]_vars /\ WF_vars(LnNext)

InitViews ==
  VwInit /\ SortIdle /\ ResIdle /\ XzIdle /\ ZlibIdle /\ SymIdle /\ RegIdle /\ PhIdle /\ L2Idle /\ LkIdle /\ DvIdle /\ MdIdle /\ ShIdle /\ SfIdle /\ QlIdle /\ CsIdle
    /\ CrcIdle /\ XzRefIdle /\ LnIdle

SpecViews == InitViews /\ [][VwNext]_vars

InitPhdr ==
  PhInit /\ SortIdle /\ ResIdle /\ XzIdle /\ ZlibIdle /\ SymIdle /\ RegIdle /\ L2Idle /\ LkIdle /\ DvIdle /\ MdIdle /\ ShIdle /\ SfIdle /\ QlIdle /\ CsIdle
    /\ CrcIdle /\ XzRefIdle /\ LnIdle /\ VwIdle

SpecPhdr == InitPhdr /\ [][PhNext]_vars

InitDebugdata ==
  DdInit /\ SortIdle /\ ResIdle /\ XzIdle /\ ZlibIdle /\ SymIdle /\ RegIdle /\ L2Idle /\ LkIdle /\ DvIdle /\ MdIdle /\ ShIdle /\ SfIdle /\ QlIdle /\ CsIdle
    /\ CrcIdle /\ LnIdle /\ VwIdle /\ PhIdle

\* A step of DdNext is possible: the function has not returned, and the
\* loop is within the calls followed.
DdCanStep ==
  rxres.result = <<>> /\ (rxres.ret = "XZ_OK" => rxres.calls < MaxDdCalls)

\* The function keeps running: weak fairness of DdNext, written with the
\* guard of DdNext for ENABLED <<DdNext>>_vars, which it equals because
\* every step counts a call or sets the result.
DdFair == []<>(~DdCanStep) \/ []<><<DdNext>>_vars

SpecDebugdata == InitDebugdata /\ [][DdNext]_vars /\ DdFair

InitLzma2 ==
  L2Init /\ SortIdle /\ ResIdle /\ XzIdle /\ ZlibIdle /\ SymIdle /\ RegIdle /\ LkIdle /\ DvIdle /\ MdIdle /\ ShIdle /\ SfIdle /\ QlIdle /\ CsIdle
    /\ CrcIdle /\ XzRefIdle /\ LnIdle /\ VwIdle /\ PhIdle

SpecLzma2 == InitLzma2 /\ [][L2Next]_vars

InitLookup ==
  LkInit /\ SortIdle /\ ResIdle /\ XzIdle /\ ZlibIdle /\ SymIdle /\ RegIdle /\ DvIdle /\ MdIdle /\ ShIdle /\ SfIdle /\ QlIdle /\ CsIdle
    /\ CrcIdle /\ XzRefIdle /\ LnIdle /\ VwIdle /\ PhIdle /\ L2Idle

SpecLookup == InitLookup /\ [][LkNext]_vars

InitDebugView ==
  DvInit /\ SortIdle /\ ResIdle /\ XzIdle /\ ZlibIdle /\ SymIdle /\ RegIdle /\ MdIdle /\ ShIdle /\ SfIdle /\ QlIdle /\ CsIdle
    /\ CrcIdle /\ XzRefIdle /\ LnIdle /\ VwIdle /\ PhIdle /\ L2Idle /\ LkIdle

SpecDebugView == InitDebugView /\ [][DvNext]_vars

InitMachoDescriptor ==
  MdInit /\ SortIdle /\ ResIdle /\ XzIdle /\ ZlibIdle /\ SymIdle /\ RegIdle /\ ShIdle /\ SfIdle /\ QlIdle /\ CsIdle
    /\ CrcIdle /\ XzRefIdle /\ LnIdle /\ VwIdle /\ PhIdle /\ L2Idle /\ LkIdle
    /\ DvIdle

SpecMachoDescriptor == InitMachoDescriptor /\ [][MdNext]_vars

InitSectionHeaders ==
  ShInit /\ SortIdle /\ ResIdle /\ XzIdle /\ ZlibIdle /\ SymIdle /\ RegIdle /\ SfIdle /\ QlIdle /\ CsIdle
    /\ CrcIdle /\ XzRefIdle /\ LnIdle /\ VwIdle /\ PhIdle /\ L2Idle /\ LkIdle
    /\ DvIdle /\ MdIdle

SpecSectionHeaders == InitSectionHeaders /\ [][ShNext]_vars

InitSyminfoFn ==
  SfInit /\ SortIdle /\ ResIdle /\ XzIdle /\ ZlibIdle /\ SymIdle /\ RegIdle /\ QlIdle /\ CsIdle
    /\ CrcIdle /\ XzRefIdle /\ LnIdle /\ VwIdle /\ PhIdle /\ L2Idle /\ LkIdle
    /\ DvIdle /\ MdIdle /\ ShIdle

SpecSyminfoFn == InitSyminfoFn /\ [][SfNext]_vars

InitSortLoops ==
  QlInit /\ SortIdle /\ ResIdle /\ XzIdle /\ ZlibIdle /\ SymIdle /\ RegIdle /\ CsIdle
    /\ CrcIdle /\ XzRefIdle /\ LnIdle /\ VwIdle /\ PhIdle /\ L2Idle /\ LkIdle
    /\ DvIdle /\ MdIdle /\ ShIdle /\ SfIdle

\* backtrace_qsort runs in one thread and takes its next step whenever it
\* has one.
SpecSortLoops == InitSortLoops /\ [][QlNext]_vars /\ WF_vars(QlNext)

InitCoffClassify ==
  CsInit /\ SortIdle /\ ResIdle /\ XzIdle /\ ZlibIdle /\ SymIdle /\ RegIdle
    /\ CrcIdle /\ XzRefIdle /\ LnIdle /\ VwIdle /\ PhIdle /\ L2Idle /\ LkIdle
    /\ DvIdle /\ MdIdle /\ ShIdle /\ SfIdle /\ QlIdle

SpecCoffClassify == InitCoffClassify /\ [][CsNext]_vars

(***************************************************************************)
(* The claims.                                                             *)
(***************************************************************************)
\* C4: when backtrace_qsort returns, the array is a permutation of its input
\* and every adjacent pair satisfies compar (a[i], a[i+1]) <= 0.
C4_SortedPermutation ==
  sortpc = "done" =>
    /\ Len(base) = count * size
    /\ ElemBag(base, count, size) = ElemBag(base0, count, size)
    /\ \A i \in 1..(count - 1) :
         CallCompar(compar, base, (i - 1) * size, i * size) <= 0

\* C4 witness: a run that made a pass with a gap above 1 and the final pass,
\* and moved records.
C4_Witness ==
  /\ sortpc = "done"
  /\ Len(passes) >= 2
  /\ size = 2
  /\ base # base0

\* The candidate the debuglink search of call f finds, and the CRC-32 of a
\* file's full contents as call f's reader computes it.
DebuglinkFound(f) ==
  IF f.fn = "elf_add"
    THEN elf_find_debugfile_by_debuglink(fs, f.filename, f.L.debuglink_name[1])
    ELSE coff_find_debugfile_by_debuglink(fs, f.filename, f.L.debuglink_name[1])

ContentsCrc(f, p) ==
  IF f.fn = "elf_add" THEN elf_crc32(Zero32, fs[p][1].bytes)
  ELSE coff_crc32(Zero32, fs[p][1].bytes)

\* Call f recorded a debuglink with a nonzero crc, and the search finds a
\* candidate whose CRC-32 differs from it.
CrcMismatch(f) ==
  /\ f.L.debuglink_name # <<>>
  /\ f.L.debuglink_crc # Zero32
  /\ DebuglinkFound(f) # <<>>
  /\ ContentsCrc(f, DebuglinkFound(f)[1]) # f.L.debuglink_crc

\* C1 as stated: a file found by the debuglink search is parsed as the debug
\* file only if the CRC-32 of its contents equals the recorded crc, for every
\* recorded crc value.
C1_AnyCrcGated ==
  \A i \in 2..Len(stack) :
    stack[i].src = "debuglink" =>
      ContentsCrc(stack[i], fdtab[stack[i].descriptor].path)
        = stack[i - 1].L.debuglink_crc

\* C1 amended: for every nonzero recorded crc, a file found by the debuglink
\* search is parsed as the debug file only if the CRC-32 of its contents
\* equals the recorded crc; a candidate whose CRC-32 differs has been closed,
\* the open returned -1, and the caller is at its next fallback source.
C1_NonzeroCrcGated ==
  \A i \in 1..Len(stack) :
    /\ (i > 1 /\ stack[i].src = "debuglink"
          /\ stack[i - 1].L.debuglink_crc # Zero32) =>
         ContentsCrc(stack[i], fdtab[stack[i].descriptor].path)
           = stack[i - 1].L.debuglink_crc
    /\ (CrcMismatch(stack[i])
          /\ stack[i].pc \notin {"enter", "buildid", "buildid_ret", "debuglink"}) =>
         /\ stack[i].pc # "debuglink_ret"
         /\ \E k \in 1..Len(attempts) : attempts[k] = Attempt(i, "debuglink", FALSE)
         /\ \E fd \in 1..Len(fdtab) :
              /\ fdtab[fd].path = DebuglinkFound(stack[i])[1]
              /\ fdtab[fd].closes = 1
              /\ \A j \in 1..Len(stack) : stack[j].descriptor # fd

\* C1 witness: a call skipped the only candidate because its CRC-32 differs
\* from the nonzero recorded crc, and is at its next fallback source.
C1_Witness ==
  /\ stack # <<>>
  /\ CrcMismatch(Top)
  /\ Top.pc \in {"debugdata", "altlink"}
  /\ attempts = <<Attempt(1, "debuglink", FALSE)>>
  /\ Len(fdtab) = 2 /\ fdtab[2].closes = 1

\* The dSYM directory entries macho_try_dsym hands to macho_try_dwarf (the
\* regular files), in directory order, as paths.
DsymCandidates ==
  SelectSeq([i \in 1..Len(macho.dir) |-> macho.dirname \o <<"/">> \o macho.dir[i]],
            LAMBDA p : Lookup(fs, p)[1].kind \in {"file", "noperm"})

\* The LC_UUID of the Mach-O file at path p equals the executable's.
SameUuid(p) ==
  /\ Lookup(fs, p)[1].kind = "file"
  /\ macho_get_uuid(ImageOf(fs, p).cmds).ok
  /\ macho_get_uuid(ImageOf(fs, p).cmds).uuid = macho.uuid

\* C2: macho_try_dwarf registers DWARF data from a dSYM candidate and returns
\* 1 only if the candidate's LC_UUID equals the executable's; for a candidate
\* whose UUID differs it returns 0, registers nothing and closes the file.
C2_UuidGated ==
  fmt = "macho" =>
    /\ \A k \in 1..Len(registered) : SameUuid(fdtab[registered[k].fd].path)
    /\ \A k \in 1..Len(attempts) :
         attempts[k].opened => SameUuid(DsymCandidates[k])
    /\ \A fd \in 2..Len(fdtab) :
         ~SameUuid(fdtab[fd].path) => fdtab[fd].closes = 1
    /\ (result = <<1>>) = (registered # <<>>)

\* C2 witness: the first candidate's UUID differs from the executable's in
\* its last byte only and was skipped; the second one matches and was
\* registered.
C2_Witness ==
  /\ fmt = "macho"
  /\ result = <<1>>
  /\ Len(attempts) = 2 /\ ~attempts[1].opened /\ attempts[2].opened
  /\ Lookup(fs, DsymCandidates[1])[1].kind = "file"
  /\ macho_get_uuid(ImageOf(fs, DsymCandidates[1]).cmds).uuid = Uuid(1, 2)
  /\ Len(registered) = 1

\* The primary ELF file's image, and whether it holds the section of a source.
PrimarySections == ImageOf(fs, PRIMARY).sections

SectionName(k) ==
  IF k = "buildid" THEN ".note.gnu.build-id"
  ELSE IF k = "debuglink" THEN ".gnu_debuglink"
  ELSE IF k = "debugdata" THEN ".gnu_debugdata" ELSE ".gnu_debugaltlink"

Present(k) ==
  \E i \in 1..Len(PrimarySections) : PrimarySections[i].name = SectionName(k)

Tried(k) ==
  \E a \in 1..Len(attempts) : attempts[a].depth = 1 /\ attempts[a].source = k

Yielded(k) ==
  \E a \in 1..Len(attempts) :
    attempts[a].depth = 1 /\ attempts[a].source = k /\ attempts[a].opened

\* C8: when elf_add on a primary ELF file has returned, every source present
\* in the file was attempted if no earlier source yielded a debug file, and
\* the attempts were made in the order build-id, debuglink, debugdata,
\* debugaltlink, whatever the order of the sections.  (A .gnu_debugdata that
\* fails to decompress is left to C9.)
C8_ProbeOrder ==
  (fmt = "elf" /\ result # <<>> /\ result # <<-1>>) =>
    /\ \A k \in Kinds :
         (Present(k) /\ \A j \in Kinds : Rank(j) < Rank(k) => (Tried(j) => ~Yielded(j))
                     /\ (Tried("debugdata") => Yielded("debugdata")))
           => Tried(k)
    /\ \A a, b \in 1..Len(attempts) :
         (a < b /\ attempts[a].depth = 1 /\ attempts[b].depth = 1)
           => Rank(attempts[a].source) < Rank(attempts[b].source)

\* C9: when the build-id debug file failed to parse, or decompression of
\* .gnu_debugdata ended with a code other than XZ_STREAM_END, elf_add still
\* tried the remaining sources and the file's own debug sections.
C9_ErrorsDoNotHalt ==
  (fmt = "elf" /\ result # <<>>) =>
    /\ (Yielded("buildid") /\ ~ImageOf(fs, BuildidPath(BUILDID)).magic_ok) =>
         /\ Present("debuglink") => Tried("debuglink")
         /\ Present("altlink") => Tried("altlink")
         /\ (\E i \in 1..Len(PrimarySections) :
               PrimarySections[i].name = ".debug_info") => found_dwarf
    /\ (Tried("debugdata") /\ ~Yielded("debugdata")) =>
         /\ Present("altlink") => Tried("altlink")
         /\ (\E i \in 1..Len(PrimarySections) :
               PrimarySections[i].name = ".debug_info") => found_dwarf

\* C10: every debuglink CRC-32 mismatch and every dSYM UUID mismatch has been
\* reported through the error callback with errnum 0 once the candidate is
\* skipped.
C10_MismatchesReported ==
  /\ \A i \in 1..Len(stack) :
       (CrcMismatch(stack[i])
          /\ stack[i].pc \notin {"enter", "buildid", "buildid_ret", "debuglink"})
         => \E k \in 1..Len(errs) : errs[k].errnum = 0
  /\ fmt = "macho" =>
       \A fd \in 2..Len(fdtab) :
         (macho_get_uuid(ImageOf(fs, fdtab[fd].path).cmds).ok
            /\ ~SameUuid(fdtab[fd].path))
           => \E k \in 1..Len(errs) : errs[k].errnum = 0

\* An xz_dec_run call in which xz_dec_main returned XZ_OK and neither in_pos
\* nor out_pos advanced.
ZeroProgress(step) ==
  step.kind = "run" /\ step.main = "XZ_OK" /\ ~step.progress

ValidStreamHeader(h) ==
  /\ Len(h) = XZ_STREAM_HEADER_SIZE
  /\ SubSeq(h, 1, XZ_HEADER_MAGIC_SIZE) = XZ_HEADER_MAGIC
  /\ h[7] = 0
  /\ get_le32(h, 9) = elf_crc32(Zero32, SubSeq(h, 7, 8))

\* C6: for a stream whose Stream Header has valid magic and CRC and declares
\* check ID 0 (none), 1 (CRC-32) or 4 (CRC-64), xz_dec_stream_header returns
\* XZ_OK, so that xz_dec_main goes on to the first block.
C6_ThreeChecksAccepted ==
  (/\ xzhdr # <<>>
   /\ ValidStreamHeader(SubSeq(xzb.in, 1, XZ_STREAM_HEADER_SIZE))
   /\ xzb.in[8] \in {0, XZ_CHECK_CRC32, XZ_CHECK_CRC64})
  => xzhdr = <<"XZ_OK">>

\* the call on the section at hand inflated a whole stream whose Adler-32
\* is not what the last four bytes of the section record, high byte first
AdlerMismatch ==
  /\ zout # <<>>
  /\ zout[1].verify # <<>>
  /\ zout[1].verify[1].inflate = 1
  /\ ZTrailer(zout[1].verify[1].out) # SubSeq(zsec.c, Len(zsec.c) - 3, Len(zsec.c))

\* C7: when the Adler-32 of the inflated bytes differs from the four-byte
\* trailer of the zlib stream, elf_zlib_inflate_and_verify returns 0 and
\* elf_uncompress_zdebug / elf_uncompress_chdr leave *uncompressed NULL and
\* *uncompressed_size 0.
C7_AdlerMismatchAborts ==
  AdlerMismatch =>
    /\ zout[1].verify[1].ret = 0
    /\ zout[1].uncompressed = <<>>
    /\ zout[1].uncompressed_size = 0

C7_Witness ==
  /\ AdlerMismatch
  /\ zout[1].verify[1].out = <<1, 2, 3>>
  /\ zout[1].ret = 1

\* the list as it was when it held its first k shards
SymPrefix(k) ==
  [head |-> IF k = 0 THEN 0 ELSE symhead,
   heap |-> IF k = 0 \/ k >= Len(SymChain) THEN symheap
            ELSE [symheap EXCEPT ![SymChain[k]].next = 0]]

\* the callback arguments of a lookup of addr made alone on the list of the
\* first k shards
SerialArgs(addr, k) ==
  syminfo_unthreaded(symfmt, SymPrefix(k).heap, SymPrefix(k).head, addr)

\* C3: on a threaded state, every lookup that threads run concurrently with
\* each other and with shard insertions calls the callback with the
\* arguments a lookup made alone would have got at some moment between its
\* first load of the list head and its return, with every insertion taking effect at its compare
\* and swap; the list is never broken (it ends in NULL, holds each shard
\* once, and every finished insertion is on it) and no thread reads a shard
\* before it is initialised.
C3_LookupsSerialisable ==
  /\ ~symbroken
  /\ Len(SymChain) <= MaxShards
  /\ \A i, j \in 1..Len(SymChain) : SymChain[i] = SymChain[j] => i = j
  /\ \A i \in 1..Len(SymChain) : symheap[SymChain[i]].st = "init"
  /\ \A k \in DOMAIN symheap :
       symheap[k].st = "init" =>
         \/ \E i \in 1..Len(SymChain) : SymChain[i] = k
         \/ \E t \in DOMAIN thr : thr[t].sdata = k /\ thr[t].pc \in {"walk", "cas"}
  /\ \A t \in DOMAIN thr :
       thr[t].pc = "returned" =>
         \E k \in thr[t].lo..Len(SymChain) : thr[t].args = SerialArgs(thr[t].addr, k)

\* a lookup returned a symbol of a shard that was not yet on the list when
\* the lookup was called
C3_Witness ==
  \E t \in DOMAIN thr :
    /\ thr[t].pc = "returned"
    /\ thr[t].args.symname # <<>>
    /\ \E i \in 1..Len(SymChain) : SymChain[i] = thr[t].edata /\ i > thr[t].lo
    /\ thr[t].args # SerialArgs(thr[t].addr, thr[t].lo)

\* C11: every decompression failure is reported through the error callback
\* with errnum EINVAL (22) or EIO (5); here for the zlib sections: when
\* elf_zlib_inflate_and_verify returned 0 for a .zdebug_* or SHF_COMPRESSED
\* section, the call made an error_callback call with one of the two.
C11_DecompressionFailuresReported ==
  (zout # <<>> /\ zout[1].verify # <<>> /\ zout[1].verify[1].ret = 0) =>
    \E i \in 1..Len(zerrs) : zerrs[i].errnum \in {22, 5}

\* C12: a module without debug info is reported through the error callback
\* with errnum -1 once per module: however many file/line queries are made,
\* the "no debug info" reports number at most the modules that lack it.
C12_NoDebugInfoReportedOnce ==
  Cardinality({i \in 1..Len(regerrs) :
                 /\ regerrs[i].errnum = -1
                 /\ regerrs[i] \in {RegNodebug("elf_nodebug")[1],
                                    RegNodebug("coff_nodebug")[1],
                                    Err("executable file is missing an associated dSYM", -1)}})
    <= Cardinality({m \in 1..Len(regmods) : ~regmods[m].dwarf})

\* C13: a symbol query dispatched through state->syminfo_fn calls the
\* symbol callback exactly once, with the symbol found or with name NULL
\* and value and size 0.
C13_SymbolCallbackOnce ==
  (regqueries # <<>> /\ regqueries[Len(regqueries)].kind = "syminfo") =>
    /\ Len(regcalls) = 1
    /\ regcalls[1].pc = regqueries[Len(regqueries)].addr
    /\ \/ regcalls[1].symname # <<>>
       \/ regcalls[1].symval = 0 /\ regcalls[1].symsize = 0

\* C14: for every byte string, elf_crc32 (0, buf, len) and
\* coff_crc32 (0, buf, len) equal the bit-by-bit CRC-32 with the reflected
\* polynomial 0xEDB88320, register complemented on input and on output.
C14_CrcMatchesReference ==
  /\ (crcout # <<>> /\ crcout.elf # <<>>) =>
       crcout.elf[1] = Crc32Reference(crcbuf)
  /\ (crcout # <<>> /\ crcout.coff # <<>>) =>
       crcout.coff[1] = Crc32Reference(crcbuf)

\* both functions have returned for a string of the longest length, and
\* the CRC is that of "\0\1\200": complemented, not the bare register
C14_Witness ==
  /\ crcout # <<>>
  /\ crcout.elf # <<>>
  /\ crcout.coff # <<>>
  /\ Len(crcbuf) >= 3
  /\ crcout.elf[1] # Zero32
  /\ crcout.elf[1] = crcout.coff[1]

\* the section at hand holds the stream d of ZDeflated, with the payload's
\* length as the uncompressed size
ZHolds(d) ==
  LET z == [s |-> d.s, sz |-> Len(d.payload)]
  IN \/ zsec.c = ZdebugSection(z)
     \/ zsec.c = ChdrSection(zsec.elfsize, ELFCOMPRESS_ZLIB, z)

\* C15: for every payload and every zlib stream a reference deflater gives
\* for it, elf_zlib_inflate_and_verify called with the payload's length as
\* output size returns 1, the output equals the payload and the Adler-32
\* check passes.
C15_InflatesReferenceStreams ==
  \A d \in ZDeflated :
    (ZHolds(d) /\ zout # <<>> /\ zout[1].verify # <<>>) =>
      /\ zout[1].verify[1].inflate = 1
      /\ zout[1].verify[1].ret = 1
      /\ zout[1].verify[1].out = d.payload

\* C16: on every stream a reference encoder made (LZMA2, with or without
\* the x86 BCJ filter before it, CRC-32 or CRC-64), the calls of xz_dec_run
\* made while it returns XZ_OK end with XZ_STREAM_END, and until then and
\* at the end the output buffers, in order, hold the payload's bytes: a
\* part of it while the decoder returns XZ_OK, all of it at the end,
\* whatever the sizes of the successive output buffers.
C16_ReferenceStreamsDecode ==
  rxres # <<>> =>
    /\ rxres \in {<<"XZ_OK">>, <<"XZ_STREAM_END">>}
    /\ Len(XzRefOutput) <= Len(rxref.payload)
    /\ XzRefOutput = SubSeq(rxref.payload, 1, Len(XzRefOutput))
    /\ rxres = <<"XZ_STREAM_END">> => XzRefOutput = rxref.payload

\* A stream with the x86 BCJ filter and an LZMA chunk is decoded to its
\* end, its output split over several buffers.
C16_Witness ==
  /\ rxres = <<"XZ_STREAM_END">>
  /\ rxs.bcj_active = 1
  /\ rxs.lzma2.lzma.probs # <<>>
  /\ rxout # <<>>
  /\ XzRefOutput = rxref.payload
  /\ Len(rxref.payload) > BCJ_TEMP_SIZE

\* C17: elf_add_syminfo_data / coff_add_syminfo_data on a threaded state
\* insert the new shard at the head of the list: the step in which a call's
\* compare and swap succeeds leaves state->syminfo_data pointing to the
\* call's shard, and the shard's next is the head as it was before.
C17_InsertsAtHead ==
  [][\A t \in DOMAIN thr :
       (thr[t].pc = "cas" /\ thr'[t].pc = "idle") =>
         /\ symhead' = thr[t].sdata
         /\ symheap'[thr[t].sdata].next = symhead]_vars

\* C18: once a shard is reachable from state->syminfo_data, no step of a
\* later insertion or lookup writes its symbols, its count or its next.
C18_PublishedShardsImmutable ==
  [][\A i \in 1..Len(SymChain) :
       /\ symheap'[SymChain[i]].symbols = symheap[SymChain[i]].symbols
       /\ symheap'[SymChain[i]].count = symheap[SymChain[i]].count
       /\ symheap'[SymChain[i]].next = symheap[SymChain[i]].next]_vars

\* C19: on a threaded state, whatever the interleaving of the writers, once
\* no call of elf_add_syminfo_data / coff_add_syminfo_data is in progress
\* the list from state->syminfo_data ends in NULL without a cycle and holds
\* every inserted shard exactly once.
C19_NoInsertionLost ==
  (\A t \in DOMAIN thr : thr[t].pc \notin {"walk", "cas"}) =>
    /\ Len(SymChain) <= MaxShards
    /\ \A k \in DOMAIN symheap :
         symheap[k].st = "init" =>
           Cardinality({i \in 1..Len(SymChain) : SymChain[i] = k}) = 1
    /\ \A i \in 1..Len(SymChain) : symheap[SymChain[i]].st = "init"

\* Every call has returned, and the shard allocated second precedes the
\* shard allocated first on the list: the two insertions overlapped.
C19_Witness ==
  /\ \A t \in DOMAIN thr : thr[t].pc = "idle"
  /\ Len(SymChain) >= 2
  /\ SymChain[1] = 2
  /\ SymChain[2] = 1

\* C20: the retry loop of elf_add_syminfo_data / coff_add_syminfo_data is
\* lock-free: a call's compare and swap fails only when the list has grown,
\* by another call's successful compare and swap, since the load that ended
\* the call's walk, and every call that has begun its walk returns.
C20_RetryLoopLockFree ==
  /\ [][\A t \in DOMAIN thr :
          (thr[t].pc = "cas" /\ thr'[t].pc = "walk") =>
            Len(SymChain) > thr[t].lo]_vars
  /\ \A t \in Threads :
       (thr[t].pc \in {"walk", "cas"}) ~> (thr[t].pc = "idle")

\* A call's compare and swap failed, and it walks the list again: it is at
\* the shard that another call, which has returned, put at the list's end.
C20_Witness ==
  \E t \in DOMAIN thr :
    /\ thr[t].pc = "idle"
    /\ \E u \in DOMAIN thr :
         /\ u # t
         /\ thr[u].pc = "walk"
         /\ thr[u].lo > 0
         /\ thr[u].pp = SymChain[Len(SymChain)]

\* C21: the symlink resolution of elf_find_debugfile_by_debuglink is
\* bounded on every file system, a link to itself and a cycle of links
\* included: the loop of lstat and readlink calls is left in the end (for
\* the path probes, or for the function's exit when an allocation fails).
C21_SymlinkResolutionEnds == <>(lnpc \in {"probes", "done"})

\* C22: when elf_add is re-entered on a debugaltlink file, the file's own
\* .gnu_debugaltlink is not followed: the call on the altlink opens no
\* further debug file and makes no further call of elf_add.
C22_AltlinkNotFollowed ==
  \A i \in 1..Len(stack) :
    (stack[i].fn = "elf_add" /\ stack[i].src = "altlink") =>
      /\ i = Len(stack)
      /\ stack[i].d = -1

\* C23: debug-file resolution terminates, the nesting of elf_add and
\* coff_add calls is bounded: no call is made inside a call of the same
\* function on the same file with the same arguments, which would repeat
\* itself without end.
C23_NestingBounded ==
  \A i, j \in 1..Len(stack) :
    i < j =>
      \/ stack[i].fn # stack[j].fn
      \/ stack[i].img # stack[j].img
      \/ stack[i].filename # stack[j].filename
      \/ stack[i].debuginfo # stack[j].debuginfo
      \/ stack[i].with_buildid_data # stack[j].with_buildid_data

\* C24: on every path through elf_add that returns 0 or 1, and on every
\* path through coff_add, each descriptor >= 0 handed to the function has
\* been closed by exactly one backtrace_close call: no descriptor is ever
\* closed twice, and when the outermost call has returned (0 or 1 for
\* elf_add) none is left open.
C24_DescriptorsClosedOnce ==
  fmt \in {"elf", "coff"} =>
    /\ \A fd \in 1..Len(fdtab) : fdtab[fd].closes <= 1
    /\ (stack = <<>> /\ result # <<>> /\ (fmt = "elf" => result[1] \in {0, 1})) =>
         \A fd \in 1..Len(fdtab) : fdtab[fd].closes = 1

\* C25: a debug-section view whose bytes a successful backtrace_dwarf_add
\* took is never released afterwards: no section registered by
\* macho_try_dwarf, elf_add or coff_add points into a released view.
C25_RegisteredViewsKept ==
  vwreg # <<>> =>
    \A i \in VwSections : vwreg[1][i].data \notin vwreleased

\* C26: when the primary executable is ET_DYN, elf_add returns -1 without
\* registering a shard and without closing the descriptor, and the
\* descriptor is then consumed exactly once: handed to elf_add by the first
\* phdr callback when its name is empty, or closed by it when it is named;
\* never both and never neither.
C26_EtDynDescriptorOnce ==
  (phpc \in {"iterate", "done"} /\ phprim.magic_ok /\ phprim.e_type = "ET_DYN") =>
    /\ phret = <<-1>>
    /\ phi = 1 =>
         /\ phshards = <<>>
         /\ phfds = <<[path |-> PH_EXE, closes |-> 0, adds |-> 1]>>
         /\ phpd.exe_descriptor = 1
         /\ phevents = <<>>
    /\ phi > 1 =>
         /\ phpd.exe_descriptor = -1
         /\ phevents = IF phlist[1].dlpi_name = <<>> THEN <<"handed">>
                       ELSE <<"closed">>
         /\ phfds[1].adds = IF phlist[1].dlpi_name = <<>> THEN 2 ELSE 1
         /\ phfds[1].closes = 1

\* C26 witness: the ET_DYN executable's descriptor was closed by the first
\* callback, for a named object, and a later callback had an empty name.
C26_Witness ==
  /\ phpc = "done" /\ phprim.magic_ok /\ phprim.e_type = "ET_DYN"
  /\ phlist[1].dlpi_name # <<>>
  /\ \E i \in 2..Len(phlist) : phlist[i].dlpi_name = <<>>
  /\ phevents = <<"closed">>

\* every output byte of the buffers left behind and of the one at hand
RECURSIVE DdConcat(_)
DdConcat(bufs) ==
  IF bufs = <<>> THEN <<>> ELSE bufs[1] \o DdConcat(Tail(bufs))

DdOutput == DdConcat(rxout) \o SubSeq(rxb.out, 1, rxb.out_pos)

\* C27: elf_uncompress_lzma_gnu_debugdata terminates on every input,
\* well-formed, truncated or corrupt, and the output grows a bounded number
\* of times: every growth follows a completely filled buffer of twice the
\* compressed size (at most one growth for an empty input), and for an
\* input that is not damaged the output never exceeds the payload.
C27_DebugdataTerminates ==
  /\ <>(rxres.result # <<>>)
  /\ [](/\ \A i \in 1..Len(rxout) :
             Len(rxout[i]) = Len(rxref.stream) * ELF_LZMA_UNCOMPRESSOR_GROW_FACTOR
        /\ rxref.stream = <<>> => Len(rxout) <= 1
        /\ rxref.kind # "corrupt" =>
             /\ Len(DdOutput) <= Len(rxref.payload)
             /\ DdOutput = SubSeq(rxref.payload, 1, Len(DdOutput)))

\* C27 witness: a truncated stream whose output grew once before the
\* decoder ran out of input, and the function returned 0.
C27_Witness ==
  /\ rxref.kind = "truncated"
  /\ Len(rxout) = 1
  /\ rxres.ret = "XZ_BUF_ERROR"
  /\ rxres.result = <<0>>

\* Where the sequence of xz_dec_main stands in the order of a stream: the
\* stream header, the blocks (start, header, data, padding, check, and the
\* start of the next), the index, its padding, its CRC-32, the footer.
XzSeqRank(seq) ==
  CASE seq = "SEQ_STREAM_HEADER" -> 0
    [] seq \in {"SEQ_BLOCK_START", "SEQ_BLOCK_HEADER", "SEQ_BLOCK_UNCOMPRESS",
                "SEQ_BLOCK_PADDING", "SEQ_BLOCK_CHECK"} -> 1
    [] seq = "SEQ_INDEX" -> 2
    [] seq = "SEQ_INDEX_PADDING" -> 3
    [] seq = "SEQ_INDEX_CRC32" -> 4
    [] seq = "SEQ_STREAM_FOOTER" -> 5

\* The offset of the Stream Footer the decoder stopped after, the Backward
\* Size stored in it, and the offset of the Index that size leads back to.
XzFooterAt == xzb.in_pos - XZ_STREAM_HEADER_SIZE
XzBackwardSize == xzb.in[XzFooterAt + 5] + 256 * xzb.in[XzFooterAt + 6]
XzIndexAt == XzFooterAt - 4 * (XzBackwardSize + 1)

\* The input up to in_pos is a whole stream, read from the bytes themselves:
\* the magics, the check named twice, an Index where the Backward Size says,
\* with as many records as blocks were decoded.
XzStreamEnded ==
  /\ xzs.sequence = "SEQ_STREAM_FOOTER"
  /\ xzb.in_pos >= 2 * XZ_STREAM_HEADER_SIZE
  /\ SubSeq(xzb.in, 1, XZ_HEADER_MAGIC_SIZE) = XZ_HEADER_MAGIC
  /\ SubSeq(xzb.in, xzb.in_pos - 1, xzb.in_pos) = XZ_FOOTER_MAGIC
  /\ xzb.in[XZ_HEADER_MAGIC_SIZE + 2] = xzs.check_type
  /\ xzb.in[XzFooterAt + 10] = xzs.check_type
  /\ xzb.in[XzFooterAt + 7] = 0 /\ xzb.in[XzFooterAt + 8] = 0
  /\ XzIndexAt >= XZ_STREAM_HEADER_SIZE
  /\ xzs.index.size = XzFooterAt - XzIndexAt - 4
  /\ xzb.in[XzIndexAt + 1] = 0
  /\ xzb.in[XzIndexAt + 2] = xzs.block.count
  /\ xzs.index.count = 0
  /\ xzs.index.hash = xzs.block.hash
  /\ (xzs.block.count = 0) = (XzIndexAt = XZ_STREAM_HEADER_SIZE)

\* C28: xz_dec_main returns XZ_STREAM_END only from the Stream Footer step:
\* the decoder then stands at SEQ_STREAM_FOOTER, the input it consumed is a
\* stream header, the blocks, an Index with as many records as blocks were
\* decoded, and a footer whose Backward Size and check type match what was
\* decoded; and from call to call the sequence only moves forward through
\* header, blocks, index, index padding, index CRC-32 and footer.
C28_StreamEndOnlyFromFooter ==
  /\ []((xzlast # <<>> /\ xzlast.kind = "run" /\ xzlast.main = "XZ_STREAM_END")
          => XzStreamEnded)
  /\ [][(xzlast # <<>> /\ xzlast'.kind = "run")
          => XzSeqRank(xzs'.sequence) >= XzSeqRank(xzs.sequence)]_vars

\* A stream of one block was decoded to its end, the footer reached in a
\* later call than the stream header.
C28_Witness ==
  /\ xzlast # <<>> /\ xzlast.kind = "run" /\ xzlast.main = "XZ_STREAM_END"
  /\ xzprev.kind = "run" /\ xzprev.ret = "XZ_OK"
  /\ xzs.block.count = 1
  /\ XzStreamEnded

\* C29: a new LZMA2 stream must begin with a dictionary reset: when the
\* first control byte after xz_dec_lzma2_reset is neither 0x00, 0x01 nor
\* >= 0xE0, xz_dec_lzma2_run returns XZ_DATA_ERROR with that one byte
\* consumed, no output written, and the decoder, its dictionary included,
\* as the reset left it.
C29_FirstChunkResetsDict ==
  (l2res # <<>> /\ l2in.ctl[1] \notin {0, 1} /\ l2in.ctl[1] < 224) =>
    /\ l2res = <<"XZ_DATA_ERROR">>
    /\ l2b.in_pos = 1
    /\ l2b.out_pos = 0
    /\ l2b.out = <<>>
    /\ l2L = L2Start(l2in.need_props)

\* An LZMA chunk with new properties but no dictionary reset (0xC0) came
\* first, more chunks behind it, and was rejected.
C29_Witness ==
  /\ l2res = <<"XZ_DATA_ERROR">>
  /\ l2in.ctl[1] = 192
  /\ Len(l2in.ctl) > 1
  /\ l2b.in_size = Len(l2b.in)
  /\ l2b.in_pos = 1

\* Chunk k is an LZMA chunk without new properties (0x80..0xBF), and no
\* control byte >= 0xC0 stands between the most recent dictionary reset
\* before it (that reset included) and it.
L2NeedsProps(ctl, k) ==
  /\ ctl[k] \in 128..191
  /\ ~\E j \in 1..(k - 1) :
        /\ ctl[j] >= 192
        /\ \A i \in (j + 1)..(k - 1) : ~(ctl[i] = 1 \/ ctl[i] >= 224)

\* C30: the first LZMA chunk after a dictionary reset must set new
\* properties: once the decoder has read the control byte of a chunk in
\* 0x80..0xBF with no control byte >= 0xC0 accepted since the most recent
\* dictionary reset, it has returned XZ_DATA_ERROR at that byte, with the
\* output of the chunks before it and nothing of this one.
C30_FirstLzmaChunkSetsProps ==
  \A k \in 1..Len(l2in.ctl) :
    (L2NeedsProps(l2in.ctl, k) /\ l2b.in_pos > L2Offset(l2in.ctl, k)) =>
      /\ l2res = <<"XZ_DATA_ERROR">>
      /\ l2b.in_pos = L2Offset(l2in.ctl, k) + 1
      /\ l2b.out_pos = L2OutBefore(l2in.ctl, k)

\* After a dictionary reset with an uncompressed chunk and one more
\* uncompressed chunk, an LZMA chunk with a state reset but the old
\* properties (0xA0) was rejected.
C30_Witness ==
  /\ l2in.ctl = <<1, 2, 160>>
  /\ l2res = <<"XZ_DATA_ERROR">>
  /\ l2b.in_pos = L2Offset(l2in.ctl, 3) + 1
  /\ l2b.out_pos = 2

\* The dictionary with its positions in order, as the comment of struct
\* xz_dictionary has them; DictOrdered leaves out pos <= limit.
DictOrdered(dict) ==
  /\ dict.start <= dict.pos
  /\ dict.pos <= dict.full
  /\ dict.full <= dict.size
  /\ dict.limit <= dict.size

\* C31: after every call of xz_dec_lzma2_run, which returns right after
\* the last xz_dict_reset, xz_dict_limit, xz_dict_put, xz_dict_repeat,
\* xz_dict_uncompressed or xz_dict_flush it made, the dictionary satisfies
\* start <= pos <= full <= size and pos <= limit <= size.
C31_DictInvariant ==
  l2res # <<>> => (DictOrdered(l2L.dict) /\ l2L.dict.pos <= l2L.dict.limit)

\* C32: every shard's array has one entry more than its count entries, and
\* the comparison function bsearch calls reads only entries of index
\* <= count (counted from 0), which is inside what was allocated.
C32_SentinelEntry ==
  /\ \A k \in 1..Len(lkshards) : lkshards[k].alloc = lkshards[k].count + 1
  /\ lkq # <<>> =>
       \A k \in DOMAIN lkq[1].reads : \A i \in lkq[1].reads[k] :
         i - 1 <= lkshards[k].count /\ i <= lkshards[k].alloc

\* addr lies in [address, address + size) of the symbol
LkContains(sym, addr) == sym.address <= addr /\ addr < sym.address + sym.size

\* some symbol of some shard contains addr
LkContained(addr) ==
  \E k \in 1..Len(lkshards) : \E i \in 1..lkshards[k].count :
    LkContains(lkshards[k].symbols[i], addr)

\* what elf_syminfo reported is a symbol whose extent contains the address
LkReportedContains ==
  /\ lkq[1].sym.symname # <<>>
  /\ lkq[1].sym.symval <= lkq[1].addr
  /\ lkq[1].addr < lkq[1].sym.symval + lkq[1].sym.symsize

\* C33 as stated: for every shard sorted by address, symbols overlapping or
\* of size 0 or not, elf_syminfo reports a symbol whose extent contains the
\* address when some symbol's extent does, and no symbol when none does.
C33_LookupFindsContaining ==
  (lkfmt = "elf" /\ lkq # <<>>) =>
    IF LkContained(lkq[1].addr) THEN LkReportedContains
    ELSE lkq[1].sym.symname = <<>>

\* every symbol of the shard ends at or before the address of the next
LkChained(shard) ==
  \A i \in 1..(shard.count - 1) :
    shard.symbols[i].address + shard.symbols[i].size
      <= shard.symbols[i + 1].address

\* C33 amended: the same for shards in which every symbol ends at or before
\* the address of the next one; in any shard, what is reported contains the
\* address, and nothing is reported for an address no symbol contains.
C33_LookupFindsContainingChained ==
  (lkfmt = "elf" /\ lkq # <<>>) =>
    /\ (\A k \in 1..Len(lkshards) : LkChained(lkshards[k])) =>
         (LkContained(lkq[1].addr) => LkReportedContains)
    /\ lkq[1].sym.symname # <<>> => LkReportedContains
    /\ ~LkContained(lkq[1].addr) => lkq[1].sym.symname = <<>>

\* An address was found in the second shard, behind a first shard of two
\* symbols, one of size 0, that do not contain it.
C33_Witness ==
  /\ lkfmt = "elf" /\ lkq # <<>>
  /\ Len(lkshards) = 2
  /\ lkshards[1].count = 2 /\ LkChained(lkshards[1])
  /\ \E i \in 1..2 : lkshards[1].symbols[i].size = 0
  /\ ~\E i \in 1..2 : LkContains(lkshards[1].symbols[i], lkq[1].addr)
  /\ LkContained(lkq[1].addr)
  /\ LkReportedContains

\* The debug sections the file has, and what they come to.
DvPresent ==
  {sec \in {dvsec.sections[i] : i \in VwSections}
             \cup {dvsec.zsections[i] : i \in VwSections} : sec.size # 0}

DvSpan == dvspan[1].max_offset - dvspan[1].min_offset

\* One view of its own for each section the file has.
DvEachOwnView ==
  /\ dvmap[1].kind # "debug_view"
  /\ \A sec \in DvPresent :
       \E i \in 1..Len(dvmap[1].views) : dvmap[1].views[i] = sec

\* C34 (as stated): elf_add maps all the debug sections through one view
\* exactly when their span max_offset - min_offset is below 0x20000000 and
\* exceeds the sum of their sizes by at most 0x10000; in every other case
\* each section is mapped through a view of its own.
C34_SingleViewWhenDense ==
  dvmap # <<>> =>
    IF DvSpan < SINGLE_VIEW_SPAN
         /\ DvSpan <= dvspan[1].debug_size + SINGLE_VIEW_SLACK
      THEN dvmap[1].kind = "debug_view"
      ELSE DvEachOwnView

\* One view for each kind of section the file has: that of .debug_X when
\* there is one, that of .zdebug_X when there is not.
DvEachIndexOwnView ==
  /\ dvmap[1].kind = "split_debug_view"
  /\ \A i \in VwSections :
       dvmap[1].views[i] =
         IF dvsec.sections[i].size # 0 THEN dvsec.sections[i]
         ELSE dvsec.zsections[i]

\* C34 (amended): when the file has a debug section, elf_add maps all of
\* them through one view exactly when their span max_offset - min_offset is
\* below 0x20000000 or exceeds the sum of their sizes by less than 0x10000;
\* in every other case each kind of section is mapped through a view of its
\* own, the .debug_X section when the file has both it and .zdebug_X.  When
\* the file has no debug section nothing is mapped.
C34_SingleViewWhenSmallOrDense ==
  dvmap # <<>> =>
    IF DvPresent = {} THEN dvmap[1].kind = "none"
    ELSE IF DvSpan < SINGLE_VIEW_SPAN
              \/ DvSpan < dvspan[1].debug_size + SINGLE_VIEW_SLACK
      THEN /\ dvmap[1].kind = "debug_view"
           /\ dvmap[1].views
                = <<[offset |-> dvspan[1].min_offset, size |-> DvSpan]>>
      ELSE DvEachIndexOwnView

\* Sections half a GiB and more apart with less than 64 KiB between them
\* are mapped through one view.
C34_Witness ==
  /\ dvmap # <<>>
  /\ dvmap[1].kind = "debug_view"
  /\ dvmap[1].failed = 0
  /\ DvSpan >= SINGLE_VIEW_SPAN
  /\ DvSpan < dvspan[1].debug_size + SINGLE_VIEW_SLACK

\* The build ID of the first .note.gnu.build-id section of an image: <<>>
\* when the image has no such section, <<id>> otherwise, id being <<>> when
\* the note is not a build ID note.
FirstBuildidNote(img) ==
  LET at == {i \in 1..Len(img.sections) :
               img.sections[i].name = ".note.gnu.build-id"}
  IN IF at = {} THEN <<>>
     ELSE <<img.sections[CHOOSE i \in at : \A k \in at : i <= k].buildid>>

\* The call f of elf_add is on a file opened through .gnu_debugaltlink.
AltCandidate(f) == f.fn = "elf_add" /\ f.src = "altlink"

\* The candidate carries the build ID the referring file recorded.
AltCarriesRecorded(f) ==
  /\ FirstBuildidNote(f.img) # <<>>
  /\ FirstBuildidNote(f.img)[1] # <<>>
  /\ FirstBuildidNote(f.img)[1] = f.with_buildid_data[1]

\* The candidate has a .note.gnu.build-id section whose build ID, or lack of
\* one, is not the build ID recorded, and a build ID was recorded.
AltContradictsRecorded(f) ==
  /\ FirstBuildidNote(f.img) # <<>>
  /\ f.with_buildid_data[1] # <<>>
  /\ FirstBuildidNote(f.img)[1] # f.with_buildid_data[1]

\* The innermost call returns.
AltReturning == stack # <<>> /\ AltCandidate(Top) /\ Len(stack') = Len(stack) - 1

\* C35 (as stated): a file opened through .gnu_debugaltlink is used as the
\* supplementary object only if it carries the build ID recorded in the
\* referring file's .gnu_debugaltlink section; a candidate whose build ID
\* differs, is malformed or is absent is rejected: elf_add on it returns 0
\* and it never gets past the section scan to become the altlink.
C35_AltlinkNeedsRecordedBuildid ==
  /\ [](\A i \in 1..Len(stack) :
          (AltCandidate(stack[i]) /\ stack[i].pc \notin {"enter", "fail"})
            => AltCarriesRecorded(stack[i]))
  /\ [][(AltReturning /\ ~AltCarriesRecorded(Top))
          => (stack'[Len(stack')].ret = 0 /\ found_dwarf' = found_dwarf)]_vars

\* C35 (amended): a file opened through .gnu_debugaltlink whose
\* .note.gnu.build-id section holds a build ID that differs from the one
\* recorded in the referring file's .gnu_debugaltlink section, or holds
\* none, is rejected when a build ID was recorded: elf_add on it returns 0
\* and it never gets past the section scan to become the altlink.  A
\* candidate without a .note.gnu.build-id section is not rejected for that.
C35_AltlinkRejectsOtherBuildid ==
  /\ [](\A i \in 1..Len(stack) :
          (AltCandidate(stack[i]) /\ stack[i].pc \notin {"enter", "fail"})
            => ~AltContradictsRecorded(stack[i]))
  /\ [][(AltReturning /\ AltContradictsRecorded(Top))
          => (stack'[Len(stack')].ret = 0 /\ found_dwarf' = found_dwarf)]_vars
  /\ [][(AltReturning /\ FirstBuildidNote(Top.img) = <<>>)
          => stack'[Len(stack')].ret = 1]_vars

\* A candidate with another build ID, and one with a note that holds no
\* build ID, has been rejected by the section scan.
C35_Witness ==
  /\ stack # <<>>
  /\ AltCandidate(Top)
  /\ Top.pc = "fail"
  /\ AltContradictsRecorded(Top)
  /\ FirstBuildidNote(Top.img)[1] = <<>>

\* What a call of macho_try_dwarf that has returned did with descriptor fd.
MdDid(op, fd) == \E i \in 1..Len(mdlog) : mdlog[i] = MdOp(op, fd)

\* C36: when backtrace_open returns a negative value macho_try_dwarf
\* returns 0 at once, having read, mapped and closed nothing; a descriptor
\* that was opened, whatever its value >= 0, is read and then either closed
\* or, when macho_try_dwarf returns 1, kept open for the DWARF data.
C36_OpenResultHonoured ==
  (mdL # <<>> /\ mdL.pc = "return") =>
    LET d == mdL.dwarf_descriptor
    IN IF d < 0
         THEN mdL.ret = 0 /\ mdlog = <<MdOp("open", d)>>
         ELSE /\ MdDid("read", d)
              /\ IF mdL.ret = 1
                   THEN d \in mdfds /\ ~MdDid("close", d)
                   ELSE d \notin mdfds /\ MdDid("close", d)

\* C37: every section header index elf_add uses (e_shstrndx or what stands
\* for SHN_XINDEX, the index of the symbol table, its sh_link) lies in
\* 1 .. shnum - 1, and shnum >= 1 when (shnum - 1) * sizeof (b_elf_shdr) is
\* computed; a file for which that is not so makes elf_add fail before the
\* index is used.
C37_SectionIndexesInRange ==
  /\ \A i \in 1..Len(shderef) :
       shderef[i].index \in 1..(shderef[i].shnum - 1)
  /\ (shL # <<>> /\ shL.count # <<>>) => shL.shnum >= 1

SfLookupFns == {"elf_syminfo", "coff_syminfo"}

SfNosymsFns == {"elf_nosyms", "coff_nosyms"}

\* C38: once state->syminfo_fn is the lookup function (elf_syminfo,
\* coff_syminfo) it is never replaced by the no symbols function; a later
\* or concurrent backtrace_initialize that found no symbols stores
\* elf_nosyms / coff_nosyms only over NULL, threaded or not.
C38_SyminfoFnKept ==
  [][/\ sfstate.syminfo_fn \in SfLookupFns
          => sfstate'.syminfo_fn \notin SfNosymsFns
     /\ (sfstate'.syminfo_fn \in SfNosymsFns
           /\ sfstate'.syminfo_fn # sfstate.syminfo_fn)
          => sfstate.syminfo_fn = "NULL"]_vars

\* In a threaded state a call that found no symbols has stored after a call
\* that found some, and the lookup function is still there.
C38_Witness ==
  /\ sfstate # <<>>
  /\ sfstate.threaded
  /\ sfstate.syminfo_fn \in SfLookupFns
  /\ \E t \in DOMAIN sfcalls :
       /\ sfcalls[t].pc = "done"
       /\ ~sfcalls[t].found_sym
       /\ sfcalls[t].before \in SfLookupFns

\* The number of passes begun with gap 1.
QlLastPasses == Cardinality({k \in 1..Len(qlpasses) : qlpasses[k] = 1})

\* C39: backtrace_qsort returns for every count and size; from dist = count
\* >= 2 every dist = (dist / 8 * 3) | 1 makes dist smaller, until it is 1;
\* the pass with dist = 1 is made exactly once and is the last; no inner
\* loop reads below the start of the array, and none goes on once cur is
\* below it.
C39_QsortTerminates ==
  /\ <>(qlL.pc = "return")
  /\ [][(qlL.pc = "do") => (qlL'.dist < qlL.dist /\ qlL'.dist >= 1)]_vars
  /\ []((qlL.pc = "return" /\ qlin.count >= 2)
          => (qlpasses[Len(qlpasses)] = 1 /\ QlLastPasses = 1))
  /\ [](qllow >= 0)
  /\ [][(qlL.pc = "for_cur" /\ qlL.cur < 0) => qlL'.pc = "for_i"]_vars

\* A sort of three passes has returned, having exchanged records.
C39_Witness ==
  /\ qlL # <<>>
  /\ qlL.pc = "return"
  /\ qlpasses = <<9, 3, 1>>
  /\ qlin.size = 2
  /\ qlbase # Flatten(QlKeys(qlin.count, "descending"), qlin.size, 1)
  /\ \A k \in 1..(qlin.count - 1) :
       CallCompar("asc", qlbase, (k - 1) * qlin.size, k * qlin.size) < 0

\* The entries of cslog of one kind, and the first section of a name.
CsLogOf(what) == {k \in 1..Len(cslog) : cslog[k].what = what}

CsFirst(name) ==
  LET at == {i \in 1..Len(csin) : csin[i].name = name}
  IN IF at = {} THEN 0 ELSE CHOOSE i \in at : \A k \in at : i <= k

CsDwarfIndex(name) ==
  {j \in 0..(Len(debug_section_names) - 1) : debug_section_names[j + 1] = name}

====
